---- MODULE Spec2Model ----
(***************************************************************************)
(* Replay verification of Nomu "Eat or Get Eaten": verifyReplay.js.        *)
(*                                                                         *)
(* verifyReplay is a synchronous function; one behaviour of this module    *)
(* is one invocation, executed stage by stage.  JavaScript values are      *)
(* records [ty, n, s]: ty is the result of typeof, n the numeric value in  *)
(* thousandths (fixed point; the finest quantity of the code is the 0.001  *)
(* size tolerance), s the string value ("NaN" marks the number NaN).       *)
(*                                                                         *)
(* Spec is one invocation on any claim; SpecSeq is a sequence of           *)
(* invocations in one process; SpecStore is the session store of           *)
(* sessionRepository.js with the games collection of scoreRepository.js.   *)
(* SpecReplay is a series of calls of sessionRepository.verifyReplay;      *)
(* SpecKind samples one spawn kind from a scaled draw; SpecScores is a     *)
(* series of updateScore calls for one player; SpecDB is initDB under      *)
(* overlapping invocations.                                                *)
(***************************************************************************)
EXTENDS Integers, Sequences, FiniteSets, TLC

(* ---------------------------------------------------------------------- *)
(* JavaScript values and the operators the verifier applies to them        *)
(* ---------------------------------------------------------------------- *)

\* fixed-point scale: one unit of n is 0.001
Milli == 1000

Num(x) == [ty |-> "number", n |-> x, s |-> ""]
\* an integer JavaScript number
Whole(i) == Num(i * Milli)
NaN == [ty |-> "number", n |-> 0, s |-> "NaN"]
Undefined == [ty |-> "undefined", n |-> 0, s |-> ""]
Null == [ty |-> "object", n |-> 0, s |-> "null"]
Str(x) == [ty |-> "string", n |-> 0, s |-> x]
Bool(b) == [ty |-> "boolean", n |-> IF b THEN 1 ELSE 0, s |-> ""]

TypeOf(v) == v.ty
IsNaN(v) == v.ty = "number" /\ v.s = "NaN"
\* a number other than NaN
IsFinite(v) == v.ty = "number" /\ v.s = ""

\* ToNumber: the strings of this model (seeds, type names) are not numeric
ToNumber(v) ==
  CASE v.ty = "number" -> v
    [] v.ty = "boolean" -> Whole(v.n)
    [] v.ty = "object" -> Whole(0)
    [] OTHER -> NaN

\* a < b, a > b, a <= b on numbers: false as soon as one side is NaN
Lt(a, b) ==
  LET x == ToNumber(a)
      y == ToNumber(b)
  IN  IsFinite(x) /\ IsFinite(y) /\ x.n < y.n
Gt(a, b) == Lt(b, a)
Le(a, b) ==
  LET x == ToNumber(a)
      y == ToNumber(b)
  IN  IsFinite(x) /\ IsFinite(y) /\ x.n <= y.n

\* a - b and a + b on numbers
Sub(a, b) ==
  LET x == ToNumber(a)
      y == ToNumber(b)
  IN  IF IsFinite(x) /\ IsFinite(y) THEN Num(x.n - y.n) ELSE NaN
Add(a, b) ==
  LET x == ToNumber(a)
      y == ToNumber(b)
  IN  IF IsFinite(x) /\ IsFinite(y) THEN Num(x.n + y.n) ELSE NaN

\* Math.max(a, b): NaN as soon as one argument converts to NaN
MathMax(a, b) ==
  LET x == ToNumber(a)
      y == ToNumber(b)
  IN  IF IsFinite(x) /\ IsFinite(y)
      THEN (IF x.n >= y.n THEN x ELSE y)
      ELSE NaN

\* Math.floor (\div rounds towards minus infinity)
MathFloor(a) ==
  LET x == ToNumber(a)
  IN  IF IsFinite(x) THEN Num((x.n \div Milli) * Milli) ELSE NaN

\* a * num / den for a constant factor num / den of the code, such as 0.05 = 5 / 100
Scale(a, num, den) ==
  LET x == ToNumber(a)
  IN  IF IsFinite(x) THEN Num((x.n * num) \div den) ELSE NaN

\* a === b
StrictEq(a, b) == a.ty = b.ty /\ ~IsNaN(a) /\ ~IsNaN(b) /\ a = b

\* !!v
Truthy(v) ==
  CASE v.ty = "boolean" -> v.n = 1
    [] v.ty = "number" -> IsFinite(v) /\ v.n # 0
    [] v.ty = "string" -> v.s # ""
    [] OTHER -> FALSE

\* a number that is an integer
IsInteger(v) == IsFinite(v) /\ v.n % Milli = 0

(* ---------------------------------------------------------------------- *)
(* Constant tables                                                         *)
(* ---------------------------------------------------------------------- *)

\* weights in thousandths
fishTypeDefinitions ==
  << [minSize |-> 10, maxSize |-> 40, weight |-> 432],
     [minSize |-> 20, maxSize |-> 60, weight |-> 252],
     [minSize |-> 25, maxSize |-> 80, weight |-> 200],
     [minSize |-> 35, maxSize |-> 100, weight |-> 100],
     [minSize |-> 200, maxSize |-> 300, weight |-> 13],
     [minSize |-> 400, maxSize |-> 500, weight |-> 3] >>

RECURSIVE SumWeights(_)
SumWeights(ws) ==
  IF ws = << >> THEN 0 ELSE Head(ws).weight + SumWeights(Tail(ws))

TOTAL_FISH_WEIGHT == SumWeights(fishTypeDefinitions)

\* weights in hundred-thousandths
SPAWN_SPEC_WEIGHTS ==
  << [kind |-> "fish", weight |-> 88100],
     [kind |-> "crab", weight |-> 147],
     [kind |-> "jelly", weight |-> 2940],
     [kind |-> "electricJelly", weight |-> 1470],
     [kind |-> "sushi", weight |-> 1470],
     [kind |-> "puffer", weight |-> 5870] >>

TOTAL_SPEC_WEIGHT == SumWeights(SPAWN_SPEC_WEIGHTS)

Kinds == {SPAWN_SPEC_WEIGHTS[i].kind : i \in DOMAIN SPAWN_SPEC_WEIGHTS}

\* size bounds of a scheduled kind (fish: of the sub-type idx, 0-based)
TYPE_SIZE_BOUNDS(kind, idx) ==
  CASE kind = "fish" ->
         [minSize |-> fishTypeDefinitions[idx + 1].minSize,
          maxSize |-> fishTypeDefinitions[idx + 1].maxSize]
    [] kind = "crab" -> [minSize |-> 50, maxSize |-> 120]
    [] kind = "jelly" -> [minSize |-> 30, maxSize |-> 80]
    [] kind = "electricJelly" -> [minSize |-> 40, maxSize |-> 90]
    [] kind = "sushi" -> [minSize |-> 30, maxSize |-> 30]
    [] kind = "puffer" -> [minSize |-> 30, maxSize |-> 240]

\* Math.ceil
MathCeil(a) ==
  LET x == ToNumber(a)
  IN  IF IsFinite(x) THEN Num(-((-x.n) \div Milli) * Milli) ELSE NaN

\* variant of calcFishScore: rounds the size up
calcFishScoreCeil(sz) == MathCeil(sz)

calcFishScore(sz) == MathFloor(sz)

(* ---------------------------------------------------------------------- *)
(* Seeded streams.  seedrandom is a library outside the repository: the    *)
(* stream of a salted seed is a fixed table of draws in [0, 1), given in   *)
(* thousandths and read cyclically.                                        *)
(* ---------------------------------------------------------------------- *)

SeedA == "a3f1"
SeedB == "7c9e"

seedrandom(seed, salt) ==
  CASE seed = SeedA /\ salt = "spec" ->
         << 100, 200, 500, 300, 500, 700,    \* fish, sub-type 0, size 25
            930, 600,                        \* sushi
            915, 400,                        \* electricJelly, size 60
            882, 100,                        \* crab, size 57
            950, 500, 500,                   \* puffer
            890, 500 >>                      \* jelly
    [] seed = SeedA /\ salt = "timing" -> << 500, 900, 500, 0, 990, 999 >>
    [] seed = SeedB /\ salt = "spec" ->
         << 50, 500, 250, 700, 5, 100,       \* fish, sub-type 1, size 30, ultra
            990, 0, 100,                     \* puffer
            900, 999,                        \* jelly
            0, 999, 0, 0, 20, 0,             \* fish, sub-type 5, size 400, fast
            927, 499 >>                      \* sushi
    [] seed = SeedB /\ salt = "timing" -> << 900, 0, 999, 500, 990, 0 >>

\* the draw number calls (0-based) of a stream
DrawAt(stream, calls) == stream[(calls % Len(stream)) + 1]

\* -Math.log(1 - u) / 1.8 in microseconds, for the draws of the timing tables
nextDelay(u) ==
  CASE u = 0 -> 0
    [] u = 500 -> 385082
    [] u = 900 -> 1279214
    [] u = 990 -> 2558428
    [] u = 999 -> 3837642

\* specRand() * (b - a) + a, a and b in thousandths
getSpecRandom(u, a, b) == (u * (b - a)) \div Milli + a

\* the walk of pickWeightedFishIndex from bucket i (1-based), r scaled by Milli
RECURSIVE FishWalk(_, _)
FishWalk(r, i) ==
  IF i > Len(fishTypeDefinitions)
  THEN Len(fishTypeDefinitions) - 1
  ELSE IF r < fishTypeDefinitions[i].weight * Milli
       THEN i - 1
       ELSE FishWalk(r - fishTypeDefinitions[i].weight * Milli, i + 1)

pickWeightedFishIndex(u) == FishWalk(u * TOTAL_FISH_WEIGHT, 1)

\* the weighted walk over SPAWN_SPEC_WEIGHTS from bucket i, r scaled by Milli;
\* "none" when no bucket takes the remainder
RECURSIVE KindWalk(_, _)
KindWalk(r, i) ==
  IF i > Len(SPAWN_SPEC_WEIGHTS)
  THEN "none"
  ELSE IF r < SPAWN_SPEC_WEIGHTS[i].weight * Milli
       THEN SPAWN_SPEC_WEIGHTS[i].kind
       ELSE KindWalk(r - SPAWN_SPEC_WEIGHTS[i].weight * Milli, i + 1)

\* variant of KindOf: a remainder that no bucket takes yields the last kind
KindOfLast(r) ==
  LET kind == KindWalk(r, 1)
  IN  IF kind = "none"
      THEN SPAWN_SPEC_WEIGHTS[Len(SPAWN_SPEC_WEIGHTS)].kind
      ELSE kind

\* the kind for the scaled draw r: the walk, then if (!kind) kind = "fish"
KindOf(r) ==
  LET kind == KindWalk(r, 1)
  IN  IF kind = "none" THEN "fish" ELSE kind

PickKind(u) == KindOf(u * TOTAL_SPEC_WEIGHT)

\* variant of AttrDraws: a sushi, whose size is fixed, takes no further draw
AttrDrawsNoSide(kind) ==
  CASE kind = "fish" -> 5
    [] kind = "puffer" -> 2
    [] kind = "sushi" -> 0
    [] OTHER -> 1

\* number of spec-stream draws after the kind draw
AttrDraws(kind) ==
  CASE kind = "fish" -> 5
    [] kind = "puffer" -> 2
    [] OTHER -> 1

\* a spec record; the fields a kind does not carry keep these defaults
NoSpec ==
  [kind |-> "none", fishTypeIndex |-> -1, size |-> -1, fromLeft |-> FALSE,
   ultra |-> FALSE, fast |-> FALSE, baseSpeed |-> -1, baseSize |-> -1]

\* the spec of one spawn: kind and kind-specific attributes, drawn in the
\* client's order from the spec stream starting at draw number calls
DrawSpec(stream, calls) ==
  LET d(k) == DrawAt(stream, calls + k)
      kind == PickKind(d(0))
  IN  CASE kind = "fish" ->
             LET tIdx == pickWeightedFishIndex(d(1))
                 tDef == fishTypeDefinitions[tIdx + 1]
                 size == getSpecRandom(d(2), tDef.minSize * Milli,
                                       tDef.maxSize * Milli)
                 rand == d(4)
                 ultra == rand < 10
                 sizeFactor == Milli - size \div 500
             IN  [NoSpec EXCEPT !.kind = kind, !.fishTypeIndex = tIdx,
                    !.size = size, !.fromLeft = d(3) < 500, !.ultra = ultra,
                    !.fast = ~ultra /\ rand < 40,
                    !.baseSpeed = getSpecRandom(d(5),
                                    300 + (5 * sizeFactor) \div 10,
                                    1500 + (3 * sizeFactor) \div 10)]
        [] kind = "crab" ->
             [NoSpec EXCEPT !.kind = kind,
                !.size = getSpecRandom(d(1), 50 * Milli, 120 * Milli)]
        [] kind = "jelly" ->
             [NoSpec EXCEPT !.kind = kind,
                !.size = getSpecRandom(d(1), 30 * Milli, 80 * Milli)]
        [] kind = "electricJelly" ->
             [NoSpec EXCEPT !.kind = kind,
                !.size = getSpecRandom(d(1), 40 * Milli, 90 * Milli)]
        [] kind = "sushi" ->
             [NoSpec EXCEPT !.kind = kind, !.fromLeft = d(1) < 500]
        [] kind = "puffer" ->
             [NoSpec EXCEPT !.kind = kind,
                !.baseSize = getSpecRandom(d(1), 30 * Milli, 60 * Milli),
                !.fromLeft = d(2) < 500]

\* Math.round(cursorSec * 1000), the cursor in microseconds
RoundMs(cursor) == (cursor + 500) \div Milli

(* ---------------------------------------------------------------------- *)
(* One invocation of verifyReplay                                          *)
(* ---------------------------------------------------------------------- *)

VARIABLES
  arg,            \* the argument: defined (an object was passed) and its fields
  pc,             \* position of the invocation
  streams,        \* the two seeded streams have been created
  specCalls,      \* draws taken from the spec stream
  timingCalls,    \* draws taken from the timing stream
  maxIdx,         \* const maxIdx
  schedule,       \* schedule[idx], idx from 0, as a sequence from 1
  cursorSec,      \* let cursorSec, in microseconds
  pos,            \* position of the per-event loop in eaten (from 1)
  computedScore,  \* let computedScore
  exit,           \* the return statement taken
  result          \* the value returned

\* the invocations that ended before the current one, oldest first
VARIABLE log

\* the session store and the score store around the verifier
VARIABLES
  sessions,       \* the documents of the sessions collection
  now,            \* Date.now(), in ms
  ttl,            \* SESSION_TTL_MINUTES of the deployed copy
  games,          \* the documents of the games collection, oldest first
  fetched,        \* the fetchSession call of the last step, if it made one
  expired         \* ids of the sessions whose age has been seen above the TTL

\* the calls of sessionRepository.verifyReplay made so far, oldest first
VARIABLE replays

\* the last kind sampled on its own: the scaled draw and the kind chosen
VARIABLE picked

\* the score repository (scoreRepository.js) for one player
VARIABLES
  scores,         \* the player's documents of the scores collection, by event
  tally,          \* games inserted, weekly-stats and event-stats updates applied
  call,           \* the updateScore call in progress or ended last
  submitted,      \* by event, the (score, game time) of the calls that resolved
  latest          \* by event, the score of the last call that resolved

scoring == << scores, tally, call, submitted, latest >>

\* the connection to MongoDB that the repositories share (initDB)
VARIABLES
  db,             \* let db: the MongoClient the cached Db belongs to, 0 while
                  \* undefined
  client,         \* let client: the MongoClient assigned last, 0 while undefined
  clients,        \* the MongoClient instances created so far, oldest first
  env,            \* MONGODB_URI and DATABASE_NAME are both set
  inits           \* the invocations of initDB by the repository functions

mongo == << db, client, clients, env, inits >>

\* the parameters, locals and return value of the invocation
locals ==
  << arg, pc, streams, specCalls, timingCalls, maxIdx, schedule, cursorSec,
     pos, computedScore, exit, result >>

store == << sessions, now, ttl, games, fetched, expired >>

\* the state of the repositories beyond the session store
beyond == << replays, picked, scoring, mongo >>

\* what no statement of verifyReplay reads or writes
outside == << log, store, beyond >>

vars == << locals, log, store, beyond >>

\* the return statements of verifyReplay, in source order
Exits ==
  << "malformed", "emptyOk", "emptyNonZero", "missingIdx", "eatenBy",
     "startEnd", "killerEntry", "killerAfter", "killerOld", "noEntry",
     "window", "type", "size", "ultra", "score", "ok" >>

\* variant of Reason: one generic text for every rejection
ReasonGeneric(e) ==
  IF e \in {"emptyOk", "ok"} THEN Null ELSE Str("Verification failed")

\* the failedDueTo of each return statement
Reason(e) ==
  CASE e = "malformed" -> Str("Verification failed: malformed arguments")
    [] e = "emptyOk" -> Null
    [] e = "emptyNonZero" ->
         Str("Verification failed: empty eaten array but non-zero score")
    [] e = "missingIdx" ->
         Str("Verification failed: eaten array empty or missing idx values")
    [] e = "eatenBy" ->
         Str("Verification failed: missing or invalid eatenBy idx")
    [] e = "startEnd" ->
         Str("Verification failed: missing/invalid startTime or endTime")
    [] e = "killerEntry" ->
         Str("Verification failed: eatenBy idx has no schedule entry")
    [] e = "killerAfter" ->
         Str("Verification failed: eatenBy idx spawned AFTER reported endTime")
    [] e = "killerOld" ->
         Str("Verification failed: eatenBy idx spawned more than 60 000 ms before endTime")
    [] e = "noEntry" -> Str("Verification failed: no schedule entry for idx")
    [] e = "window" -> Str("Verification failed: eaten outside allowed window")
    [] e = "type" -> Str("Verification failed: type mismatch")
    [] e = "size" -> Str("Verification failed: size outside bounds")
    [] e = "ultra" -> Str("Verification failed: ultra flag mismatch")
    [] e = "score" -> Str("Verification failed: computed score mismatch")
    [] e = "ok" -> Null

\* the object a return statement builds
ResultOf(e) == [ok |-> e \in {"emptyOk", "ok"}, failedDueTo |-> Reason(e)]

NoResult == [ok |-> FALSE, failedDueTo |-> Undefined]

\* return {ok, failedDueTo} at return statement e
Return(e) ==
  /\ pc' = "returned"
  /\ exit' = e
  /\ result' = ResultOf(e)

\* an exception leaves the function
Throw ==
  /\ pc' = "thrown"
  /\ UNCHANGED << exit, result >>

\* schedule[v]: the entry at an integer index inside the array, else undefined
HasEntry(sched, v) ==
  IsInteger(v) /\ v.n >= 0 /\ v.n \div Milli < Len(sched)
EntryAt(sched, v) == sched[v.n \div Milli + 1]

\* new Array(v) throws a RangeError unless v is a non-negative integer
\* (the upper limit 2^32 - 1 lies beyond the numbers of this model)
ValidArrayLength(v) == IsInteger(v) /\ v.n >= 0

\* eaten.reduce((m, e) => Math.max(m, e.idx), -1) over objects
RECURSIVE ReduceMaxIdx(_, _)
ReduceMaxIdx(items, m) ==
  IF items = << >>
  THEN m
  ELSE ReduceMaxIdx(Tail(items), MathMax(m, Head(items).idx))

\* variant of NextEntry: the new entry is stored in front of the older ones,
\* so that an index counts from the largest index down
NextEntryReversed(seed, st) ==
  LET specStream == seedrandom(seed, "spec")
      timingStream == seedrandom(seed, "timing")
      spec == DrawSpec(specStream, st.specCalls)
      cursor == st.cursorSec + nextDelay(DrawAt(timingStream, st.timingCalls))
  IN  [schedule |-> << [spawnTimeMs |-> RoundMs(cursor), spec |-> spec] >>
                      \o st.schedule,
       specCalls |-> st.specCalls + 1 + AttrDraws(spec.kind),
       timingCalls |-> st.timingCalls + 1,
       cursorSec |-> cursor]

\* the state of the schedule loop after one more iteration
NextEntry(seed, st) ==
  LET specStream == seedrandom(seed, "spec")
      timingStream == seedrandom(seed, "timing")
      spec == DrawSpec(specStream, st.specCalls)
      cursor == st.cursorSec + nextDelay(DrawAt(timingStream, st.timingCalls))
  IN  [schedule |-> Append(st.schedule,
                           [spawnTimeMs |-> RoundMs(cursor), spec |-> spec]),
       specCalls |-> st.specCalls + 1 + AttrDraws(spec.kind),
       timingCalls |-> st.timingCalls + 1,
       cursorSec |-> cursor]

LoopStart ==
  [schedule |-> << >>, specCalls |-> 0, timingCalls |-> 0, cursorSec |-> 0]

(* ----------------------------- the checks ------------------------------ *)

\* variant of Malformed: finalScore is not looked at
MalformedNoScore(a) == TypeOf(a.seed) # "string" \/ ~a.eaten.isArray

\* quick sanity check
Malformed(a) ==
  \/ TypeOf(a.seed) # "string"
  \/ ~a.eaten.isArray
  \/ TypeOf(a.finalScore) # "number"

\* variant of ZeroScore: !finalScore
ZeroScoreFalsy(finalScore) == ~Truthy(finalScore)

\* finalScore === 0
ZeroScore(finalScore) == StrictEq(finalScore, Whole(0))

\* typeof eatenBy !== "number" || eatenBy < 0
EatenByInvalid(eatenBy) ==
  TypeOf(eatenBy) # "number" \/ Lt(eatenBy, Whole(0))

\* variant of SessionWindowInvalid: no 3000 ms of slack
SessionWindowNoSlack(a) ==
  \/ TypeOf(a.startTime) # "number"
  \/ TypeOf(a.endTime) # "number"
  \/ Le(a.endTime, a.startTime)
  \/ Gt(Sub(a.endTime, a.startTime), a.gameTime)

\* the start/end-time condition
SessionWindowInvalid(a) ==
  \/ TypeOf(a.startTime) # "number"
  \/ TypeOf(a.endTime) # "number"
  \/ Le(a.endTime, a.startTime)
  \/ Gt(Sub(a.endTime, a.startTime), Add(a.gameTime, Whole(3000)))

\* killerSpawnMs > runDurationMs
KillerAfterEnd(runDurationMs, killerSpawnMs) ==
  Gt(Whole(killerSpawnMs), runDurationMs)

\* variant of KillerTooOld: the 60 000 ms of the rejection message
KillerTooOld60(runDurationMs, killerSpawnMs) ==
  Gt(Sub(runDurationMs, Whole(killerSpawnMs)), Whole(60000))

\* runDurationMs - killerSpawnMs > 120_000
KillerTooOld(runDurationMs, killerSpawnMs) ==
  Gt(Sub(runDurationMs, Whole(killerSpawnMs)), Whole(120000))

\* dt < 0 || dt > 60000
OutsideWindow(dt) == Lt(dt, Whole(0)) \/ Gt(dt, Whole(60000))

\* variant of ExpectedType: no wire name for electricJelly
ExpectedTypeNoAlias(kind) == kind

\* the wire name of a scheduled kind
ExpectedType(kind) == IF kind = "electricJelly" THEN "elecJelly" ELSE kind

\* the bounds looked up for a submitted type that passed the type match
BoundsFor(type, spec) ==
  IF type = "fish"
  THEN TYPE_SIZE_BOUNDS("fish", spec.fishTypeIndex)
  ELSE TYPE_SIZE_BOUNDS(IF type = "elecJelly" THEN "electricJelly" ELSE type, 0)

\* size < bounds.minSize - 0.001 || size > bounds.maxSize + 0.001
OutsideBounds(size, bounds) ==
  \/ Lt(size, Num(bounds.minSize * Milli - 1))
  \/ Gt(size, Num(bounds.maxSize * Milli + 1))

\* variant of UltraMismatch: ultra compared without the coercion to a boolean
UltraMismatchStrict(ultra, spec) == ultra # Bool(spec.ultra)

\* !!ultra !== expectedUltra
UltraMismatch(ultra, spec) == Truthy(ultra) # spec.ultra

\* variant of Points: a sushi scores by its size like every other kind
PointsBySize(type, size) == calcFishScore(size)

\* const pts = type === "sushi" ? 50 : calcFishScore(size)
Points(type, size) == IF type = "sushi" THEN Whole(50) ELSE calcFishScore(size)

\* the return statement an event takes in the per-event loop, "pass" if none
EventExit(ev, sched) ==
  IF ~HasEntry(sched, ev.idx) THEN "noEntry"
  ELSE LET entry == EntryAt(sched, ev.idx)
           dt == Sub(ev.t, Whole(entry.spawnTimeMs))
       IN  CASE OutsideWindow(dt) -> "window"
             [] ~StrictEq(ev.type, Str(ExpectedType(entry.spec.kind))) -> "type"
             [] OutsideBounds(ev.size, BoundsFor(ev.type.s, entry.spec)) -> "size"
             [] ev.type.s = "fish" /\ UltraMismatch(ev.ultra, entry.spec) -> "ultra"
             [] OTHER -> "pass"

(* ----------------------------- the actions ----------------------------- *)

\* function verifyReplay({seed, eaten, ...}): destructuring the parameter
\* throws a TypeError when no object is passed
Destructure ==
  /\ pc = "call"
  /\ IF arg.defined
     THEN pc' = "sanity" /\ UNCHANGED << exit, result >>
     ELSE Throw
  /\ UNCHANGED << arg, streams, specCalls, timingCalls, maxIdx, schedule,
                  cursorSec, pos, computedScore >>
  /\ UNCHANGED outside

SanityCheck ==
  /\ pc = "sanity"
  /\ IF Malformed(arg)
     THEN Return("malformed")
     ELSE pc' = "empty" /\ UNCHANGED << exit, result >>
  /\ UNCHANGED << arg, streams, specCalls, timingCalls, maxIdx, schedule,
                  cursorSec, pos, computedScore >>
  /\ UNCHANGED outside

EmptyCase ==
  /\ pc = "empty"
  /\ IF Len(arg.eaten.items) = 0
     THEN IF ZeroScore(arg.finalScore)
          THEN Return("emptyOk")
          ELSE Return("emptyNonZero")
     ELSE pc' = "streams" /\ UNCHANGED << exit, result >>
  /\ UNCHANGED << arg, streams, specCalls, timingCalls, maxIdx, schedule,
                  cursorSec, pos, computedScore >>
  /\ UNCHANGED outside

\* variant of CreateStreams: the two generators are module-level singletons,
\* seeded by the first invocation and drawn from by every later one
CreateStreamsOnce ==
  /\ pc = "streams"
  /\ streams' = TRUE
  /\ specCalls' = IF streams THEN specCalls ELSE 0
  /\ timingCalls' = IF streams THEN timingCalls ELSE 0
  /\ pc' = "maxIdx"
  /\ UNCHANGED << arg, maxIdx, schedule, cursorSec, pos, computedScore, exit,
                  result >>
  /\ UNCHANGED outside

CreateStreams ==
  /\ pc = "streams"
  /\ streams' = TRUE
  /\ specCalls' = 0
  /\ timingCalls' = 0
  /\ pc' = "maxIdx"
  /\ UNCHANGED << arg, maxIdx, schedule, cursorSec, pos, computedScore, exit,
                  result >>
  /\ UNCHANGED outside

\* const maxIdx = Math.max(eaten.reduce(...), eatenBy or -1); the maxIdx < 0
\* return; new Array(maxIdx + 1).  Reading e.idx of a null element throws.
ComputeMaxIdx ==
  /\ pc = "maxIdx"
  /\ LET items == arg.eaten.items
         m == MathMax(ReduceMaxIdx(items, Whole(-1)),
                      IF TypeOf(arg.eatenBy) = "number"
                      THEN arg.eatenBy ELSE Whole(-1))
     IN  IF \E i \in DOMAIN items : ~items[i].obj
         THEN Throw /\ UNCHANGED << maxIdx, schedule, cursorSec >>
         ELSE /\ maxIdx' = m
              /\ IF Lt(m, Whole(0))
                 THEN Return("missingIdx") /\ UNCHANGED << schedule, cursorSec >>
                 ELSE IF ~ValidArrayLength(Add(m, Whole(1)))
                      THEN Throw /\ UNCHANGED << schedule, cursorSec >>
                      ELSE /\ schedule' = << >>
                           /\ cursorSec' = 0
                           /\ pc' = "build"
                           /\ UNCHANGED << exit, result >>
  /\ UNCHANGED << arg, streams, specCalls, timingCalls, pos, computedScore >>
  /\ UNCHANGED outside

\* one iteration of for (let idx = 0; idx <= maxIdx; idx++)
BuildEntry ==
  /\ pc = "build"
  /\ Le(Whole(Len(schedule)), maxIdx)
  /\ LET st == NextEntry(arg.seed.s,
                         [schedule |-> schedule, specCalls |-> specCalls,
                          timingCalls |-> timingCalls, cursorSec |-> cursorSec])
     IN  /\ schedule' = st.schedule
         /\ specCalls' = st.specCalls
         /\ timingCalls' = st.timingCalls
         /\ cursorSec' = st.cursorSec
  /\ UNCHANGED << arg, pc, streams, maxIdx, pos, computedScore, exit, result >>
  /\ UNCHANGED outside

\* the loop has ended: validate eatenBy
CheckEatenBy ==
  /\ pc = "build"
  /\ ~Le(Whole(Len(schedule)), maxIdx)
  /\ IF EatenByInvalid(arg.eatenBy)
     THEN Return("eatenBy")
     ELSE pc' = "window" /\ UNCHANGED << exit, result >>
  /\ UNCHANGED << arg, streams, specCalls, timingCalls, maxIdx, schedule,
                  cursorSec, pos, computedScore >>
  /\ UNCHANGED outside

CheckSessionWindow ==
  /\ pc = "window"
  /\ IF SessionWindowInvalid(arg)
     THEN Return("startEnd")
     ELSE pc' = "killer" /\ UNCHANGED << exit, result >>
  /\ UNCHANGED << arg, streams, specCalls, timingCalls, maxIdx, schedule,
                  cursorSec, pos, computedScore >>
  /\ UNCHANGED outside

\* killerEntry lookup and the two killer-timing checks; then the per-event
\* loop starts with computedScore = 0
CheckKiller ==
  /\ pc = "killer"
  /\ LET runDurationMs == Sub(arg.endTime, arg.startTime)
     IN  IF ~HasEntry(schedule, arg.eatenBy)
         THEN Return("killerEntry") /\ UNCHANGED << pos, computedScore >>
         ELSE LET killerSpawnMs == EntryAt(schedule, arg.eatenBy).spawnTimeMs
              IN  IF KillerAfterEnd(runDurationMs, killerSpawnMs)
                  THEN Return("killerAfter") /\ UNCHANGED << pos, computedScore >>
                  ELSE IF KillerTooOld(runDurationMs, killerSpawnMs)
                       THEN Return("killerOld")
                            /\ UNCHANGED << pos, computedScore >>
                       ELSE /\ pc' = "events"
                            /\ pos' = 1
                            /\ computedScore' = Whole(0)
                            /\ UNCHANGED << exit, result >>
  /\ UNCHANGED << arg, streams, specCalls, timingCalls, maxIdx, schedule,
                  cursorSec >>
  /\ UNCHANGED outside

\* one iteration of for (const ev of eaten)
CheckEvent ==
  /\ pc = "events"
  /\ pos <= Len(arg.eaten.items)
  /\ LET ev == arg.eaten.items[pos]
     IN  IF ~ev.obj
         THEN Throw /\ UNCHANGED << pos, computedScore >>
         ELSE LET e == EventExit(ev, schedule)
              IN  IF e # "pass"
                  THEN Return(e) /\ UNCHANGED << pos, computedScore >>
                  ELSE /\ computedScore' =
                            Add(computedScore, Points(ev.type.s, ev.size))
                       /\ pos' = pos + 1
                       /\ UNCHANGED << pc, exit, result >>
  /\ UNCHANGED << arg, streams, specCalls, timingCalls, maxIdx, schedule,
                  cursorSec >>
  /\ UNCHANGED outside

\* final score comparison
FinalScore ==
  /\ pc = "events"
  /\ pos > Len(arg.eaten.items)
  /\ IF ~StrictEq(computedScore, arg.finalScore)
     THEN Return("score")
     ELSE Return("ok")
  /\ UNCHANGED << arg, streams, specCalls, timingCalls, maxIdx, schedule,
                  cursorSec, pos, computedScore >>
  /\ UNCHANGED outside

Next ==
  \/ Destructure
  \/ SanityCheck
  \/ EmptyCase
  \/ CreateStreams
  \/ ComputeMaxIdx
  \/ BuildEntry
  \/ CheckEatenBy
  \/ CheckSessionWindow
  \/ CheckKiller
  \/ CheckEvent
  \/ FinalScore

(* ---------------------------------------------------------------------- *)
(* The session store (sessionRepository.js) and the games collection       *)
(* ---------------------------------------------------------------------- *)

\* sessions the store holds at most
MaxSessions == 2
\* game documents recorded at most
MaxGames == 2

\* const SESSION_TTL_MINUTES: 90 in the first copy of the file, 1440 in the
\* second
SESSION_TTL_MINUTES == {90, 1440}

\* SESSION_TTL_MINUTES * 60 * 1000
TtlMs(minutes) == minutes * 60 * 1000

\* the ObjectId strings callers pass, those of the documents insertOne creates
SessionIds == 1..MaxSessions

\* Telegram user ids, as numbers and as strings
UserIds == {Whole(42), Str("42"), Str("7")}

\* the user who opens sessions
Owners == {Whole(42)}

\* the users who submit scores: the owner of the sessions and another user
Submitters == {Whole(42), Str("7")}

\* String(v) for the user ids
String(v) ==
  CASE v.ty = "string" -> v.s
    [] v = Whole(42) -> "42"
    [] v = Whole(7) -> "7"
    [] OTHER -> v.ty

\* the instants at which the store is called
Instants(minutes) == {0, TtlMs(minutes), TtlMs(minutes) + 1}

\* crypto.randomBytes(16).toString("hex"): a seed of its own for every session
SeedOf(id) == IF id % 2 = 1 THEN SeedA ELSE SeedB

\* null, as the value of fetchSession
NoSession == [id |-> 0, userId |-> Null, seed |-> "", createdAt |-> 0]

\* no fetchSession call in the last step
NoFetch ==
  [called |-> FALSE, sessionId |-> 0, userId |-> Null, result |-> NoSession,
   usedBefore |-> FALSE, expiredBefore |-> FALSE]

\* variant of SameUser: the ids compared without String()
SameUserStrict(a, b) == a = b

\* String(sess.userId) === String(userId)
SameUser(a, b) == String(a) = String(b)

\* findOne({_id: new ObjectId(sessionId)})
findOne(docs, sessionId) ==
  IF \E d \in docs : d.id = sessionId
  THEN CHOOSE d \in docs : d.id = sessionId
  ELSE NoSession

\* fetchSession(sessionId, userId) on the documents docs at the instant clock
fetchSession(docs, clock, minutes, sessionId, userId) ==
  LET sess == findOne(docs, sessionId)
  IN  IF sess = NoSession \/ ~SameUser(sess.userId, userId)
      THEN NoSession
      ELSE IF clock - sess.createdAt > TtlMs(minutes)
           THEN NoSession
           ELSE sess

\* the record of a fetchSession call made in the current state
Fetch(sessionId, userId) ==
  [called |-> TRUE,
   sessionId |-> sessionId,
   userId |-> userId,
   result |-> fetchSession(sessions, now, ttl, sessionId, userId),
   usedBefore |-> \E i \in DOMAIN games : games[i].sessionId = sessionId,
   expiredBefore |-> sessionId \in expired]

\* the game document updateScore inserts (isFlagged = false by default)
updateScore(gs, userId, sessionId) ==
  Append(gs, [userId |-> userId, sessionId |-> sessionId, isFlagged |-> FALSE])

\* createSession(userId): insertOne assigns the next id
CreateSession(userId) ==
  /\ Cardinality(sessions) < MaxSessions
  /\ sessions' = sessions \cup
       {[id |-> Cardinality(sessions) + 1, userId |-> userId,
         seed |-> SeedOf(Cardinality(sessions) + 1), createdAt |-> now]}
  /\ fetched' = NoFetch
  /\ UNCHANGED << now, ttl, games, expired, locals, log, beyond >>

\* time passes
Tick ==
  /\ \E t \in Instants(ttl) :
       /\ t > now
       /\ now' = t
       /\ expired' = expired \cup
            {d.id : d \in {x \in sessions : t - x.createdAt > TtlMs(ttl)}}
  /\ fetched' = NoFetch
  /\ UNCHANGED << sessions, ttl, games, locals, log, beyond >>

\* a call of fetchSession(sessionId, userId)
FetchSession(sessionId, userId) ==
  /\ fetched' = Fetch(sessionId, userId)
  /\ UNCHANGED << sessions, now, ttl, games, expired, locals, log, beyond >>

\* a score submission: the session is fetched and, when it is valid, the
\* game is recorded under its id
SubmitScore(sessionId, userId) ==
  /\ Len(games) < MaxGames
  /\ fetched' = Fetch(sessionId, userId)
  /\ games' = IF Fetch(sessionId, userId).result = NoSession
              THEN games
              ELSE updateScore(games, userId, sessionId)
  /\ UNCHANGED << sessions, now, ttl, expired, locals, log, beyond >>

NextStore ==
  \/ \E u \in Owners : CreateSession(u)
  \/ Tick
  \/ \E id \in SessionIds, u \in UserIds : FetchSession(id, u)
  \/ \E id \in SessionIds, u \in Submitters : SubmitScore(id, u)

(* ---------------------------------------------------------------------- *)
(* initDB of scoreRepository.js, which sessionRepository.js imports         *)
(* ---------------------------------------------------------------------- *)

\* invocations of initDB that may overlap
MaxInits == 3

\* db and client before their first assignment
NoDb == 0
NoClient == 0

\* an invocation of initDB that has not started: where it stands, the
\* MongoClient it created and the handle it returned
NoInit == [at |-> "idle", mine |-> NoClient, got |-> NoDb]

\* no MongoClient created, no invocation of initDB started
NoMongo ==
  /\ db = NoDb
  /\ client = NoClient
  /\ clients = << >>
  /\ env = TRUE
  /\ inits = [i \in 1..MaxInits |-> NoInit]

\* the MongoClient instances whose connect() resolved
Connected == {c \in 1..Len(clients) : clients[c] = "connected"}

\* initDB from its first statement to the await: if (db) return db; the
\* check of the environment; client = new MongoClient(uri, ...) and the call
\* of client.connect()
EnterInitDB(i) ==
  /\ inits[i].at = "idle"
  /\ IF db # NoDb
     THEN /\ inits' = [inits EXCEPT ![i] = [NoInit EXCEPT !.at = "returned",
                                                         !.got = db]]
          /\ UNCHANGED << db, client, clients >>
     ELSE IF ~env
     THEN /\ inits' = [inits EXCEPT ![i] = [NoInit EXCEPT !.at = "thrown"]]
          /\ UNCHANGED << db, client, clients >>
     ELSE /\ clients' = Append(clients, "connecting")
          /\ client' = Len(clients) + 1
          /\ inits' = [inits EXCEPT ![i] = [NoInit EXCEPT
                                             !.at = "connecting",
                                             !.mine = Len(clients) + 1]]
          /\ UNCHANGED db
  /\ UNCHANGED env
  /\ UNCHANGED << locals, log, store, replays, picked, scoring >>

\* initDB after the await: connect() of the invocation's MongoClient resolved
\* (db = client.db(dbName) with the client variable as it is now; return db)
\* or rejected (the invocation rejects)
ConnectSettles(i, ok) ==
  /\ inits[i].at = "connecting"
  /\ clients' = [clients EXCEPT ![inits[i].mine] =
                   IF ok THEN "connected" ELSE "failed"]
  /\ IF ok
     THEN /\ db' = client
          /\ inits' = [inits EXCEPT ![i].at = "returned", ![i].got = client]
     ELSE /\ inits' = [inits EXCEPT ![i].at = "thrown"]
          /\ UNCHANGED db
  /\ UNCHANGED << client, env >>
  /\ UNCHANGED << locals, log, store, replays, picked, scoring >>

\* await initDB() of a caller that no other invocation overlaps: it returns
\* the cached db, or creates a MongoClient whose connect() resolves or rejects
InitDBAlone(ok) ==
  /\ ok => (db # NoDb \/ env)
  /\ ~ok => db = NoDb
  /\ IF db # NoDb \/ ~env
     THEN UNCHANGED << db, client, clients >>
     ELSE /\ clients' = Append(clients, IF ok THEN "connected" ELSE "failed")
          /\ client' = Len(clients) + 1
          /\ db' = IF ok THEN Len(clients) + 1 ELSE db
  /\ UNCHANGED << env, inits >>

NextDB ==
  \/ \E i \in 1..MaxInits : EnterInitDB(i)
  \/ \E i \in 1..MaxInits, ok \in BOOLEAN : ConnectSettles(i, ok)

(* ---------------------------------------------------------------------- *)
(* updateScore of scoreRepository.js                                        *)
(* ---------------------------------------------------------------------- *)

\* updateScore calls made at most
MaxCalls == 2

\* config.activeEvent (CHANGELOG.md: currently Season 4)
activeEvent == "Season 4"

\* const resolvedEvent = event || "Season 1", event defaulting to activeEvent
\* when the argument is undefined
resolvedEvent(event) ==
  LET e == IF event = Undefined THEN Str(activeEvent) ELSE event
  IN  IF Truthy(e) THEN e.s ELSE "Season 1"

\* the events a score document can belong to
EventNames == {activeEvent, "Season 1"}

\* the event arguments, scores and game times (ms) callers pass
EventArgValues == {Undefined, Null}
ScoreValues == {Whole(-5), Whole(10), Whole(20)}
GameTimeValues == {Whole(1000), Whole(2500)}

\* const gameTime = gameTimeMs / 1000
Seconds(gameTimeMs) == Scale(gameTimeMs, 1, 1000)

\* no document for the player and the event
NoScoreDoc ==
  [exists |-> FALSE, lastScore |-> Undefined, lastGameTime |-> Undefined,
   highScore |-> Undefined, highScoreGameTime |-> Undefined]

\* {$gt: ["$highScore", score]}: a missing field sorts below every number
HighScoreGreater(doc, score) == doc.exists /\ Gt(doc.highScore, score)

\* variant of Upserted: highScore follows the score of the call
UpsertedLast(doc, score, gameTime) ==
  [exists |-> TRUE, lastScore |-> score, lastGameTime |-> gameTime,
   highScore |-> score, highScoreGameTime |-> gameTime]

\* the document after the pipeline update of step 4
Upserted(doc, score, gameTime) ==
  [exists |-> TRUE,
   lastScore |-> score,
   lastGameTime |-> gameTime,
   highScore |-> IF HighScoreGreater(doc, score) THEN doc.highScore ELSE score,
   highScoreGameTime |->
     IF HighScoreGreater(doc, score) THEN doc.highScoreGameTime ELSE gameTime]

\* variant of Caught: one try block around the three statistics steps, whose
\* catch rethrows
CaughtNone(step) == FALSE

\* the steps whose try block has a catch that only logs
Caught(step) == step \in {"game", "weekly", "event"}

\* no call of updateScore
NoCall ==
  [at |-> "idle", event |-> "", score |-> Undefined, gameTime |-> Undefined,
   failed |-> {}, ran |-> {}, highBefore |-> NoScoreDoc, value |-> NoScoreDoc]

\* calls of updateScore made so far
Calls == tally.calls

\* updateScore(userId, username, score, gameTimeMs, event): await initDB()
\* resolves or rejects; then the locals are set
BeginUpdateScore(event, score, gameTimeMs, connected) ==
  /\ call.at \in {"idle", "resolved", "rejected"}
  /\ Calls < MaxCalls
  /\ InitDBAlone(connected)
  /\ tally' = [tally EXCEPT !.calls = @ + 1]
  /\ call' = [NoCall EXCEPT
                !.at = IF connected THEN "game" ELSE "rejected",
                !.event = resolvedEvent(event),
                !.score = score,
                !.gameTime = Seconds(gameTimeMs),
                !.highBefore = scores[resolvedEvent(event)]]
  /\ UNCHANGED << scores, submitted, latest >>
  /\ UNCHANGED << locals, log, store, replays, picked >>

\* where the call stands after a step that threw: the next step when the
\* step's catch only logs, rejected otherwise
AfterFailure(step, next) == IF Caught(step) THEN next ELSE "rejected"

\* steps 1 to 3: insertOne into games, updateOne on stats, updateOne on
\* event-stats; the operation succeeds or throws
BestEffortStep(step, next, ok) ==
  /\ call.at = step
  /\ call' = [call EXCEPT
                !.at = IF ok THEN next ELSE AfterFailure(step, next),
                !.ran = @ \cup {step},
                !.failed = IF ok THEN @ ELSE @ \cup {step}]
  /\ tally' = IF ok THEN [tally EXCEPT ![step] = @ + 1] ELSE tally
  /\ UNCHANGED << scores, submitted, latest >>
  /\ UNCHANGED << locals, log, store, replays, picked, mongo >>

\* step 4: findOneAndUpdate with upsert on {userId, event}; a failure is
\* logged and thrown again
UpsertScore(ok) ==
  /\ call.at = "upsert"
  /\ LET doc == Upserted(scores[call.event], call.score, call.gameTime)
     IN  IF ok
         THEN /\ scores' = [scores EXCEPT ![call.event] = doc]
              /\ call' = [call EXCEPT !.at = "resolved", !.ran = @ \cup {"upsert"},
                                      !.value = doc]
              /\ submitted' = [submitted EXCEPT ![call.event] =
                                 @ \cup {[score |-> call.score,
                                          gameTime |-> call.gameTime]}]
              /\ latest' = [latest EXCEPT ![call.event] = call.score]
         ELSE /\ call' = [call EXCEPT !.at = "rejected",
                                      !.ran = @ \cup {"upsert"},
                                      !.failed = @ \cup {"upsert"}]
              /\ UNCHANGED << scores, submitted, latest >>
  /\ UNCHANGED tally
  /\ UNCHANGED << locals, log, store, replays, picked, mongo >>

NextScores ==
  \/ \E event \in EventArgValues, score \in ScoreValues,
        gameTimeMs \in GameTimeValues, connected \in BOOLEAN :
       BeginUpdateScore(event, score, gameTimeMs, connected)
  \/ \E ok \in BOOLEAN : BestEffortStep("game", "weekly", ok)
  \/ \E ok \in BOOLEAN : BestEffortStep("weekly", "event", ok)
  \/ \E ok \in BOOLEAN : BestEffortStep("event", "upsert", ok)
  \/ \E ok \in BOOLEAN : UpsertScore(ok)

\* empty collections, no call
NoScores ==
  /\ scores = [e \in EventNames |-> NoScoreDoc]
  /\ tally = [calls |-> 0, game |-> 0, weekly |-> 0, event |-> 0]
  /\ call = NoCall
  /\ submitted = [e \in EventNames |-> {}]
  /\ latest = [e \in EventNames |-> Undefined]

\* no kind sampled
NoPick == [called |-> FALSE, r |-> 0, kind |-> "none"]

\* no session, no game, no call yet
EmptyStore ==
  /\ sessions = {}
  /\ now = 0
  /\ games = << >>
  /\ fetched = NoFetch
  /\ expired = {}

\* nothing has happened in the repositories beyond the session store
BeyondIdle ==
  /\ replays = << >>
  /\ picked = NoPick
  /\ NoScores
  /\ NoMongo

(* ---------------------------------------------------------------------- *)
(* verifyReplay of sessionRepository.js: the copy deployed with the TTL of  *)
(* 90 minutes (lines 96-170) and the one deployed with 1440 (lines          *)
(* 288-420).  Sizes keep three decimals, rounded down.                      *)
(* ---------------------------------------------------------------------- *)

\* the copy of the file that is deployed, by its SESSION_TTL_MINUTES
FirstCopy(minutes) == minutes = 90

\* MAX_EXPECTED_DURATION_MS: 20 minutes in the first copy, an hour in the second
MAX_EXPECTED_DURATION_MS(minutes) ==
  IF FirstCopy(minutes) THEN 20 * 60 * 1000 ELSE 60 * 60 * 1000

\* SIZE_RULES[type], min = max = 0 with found = FALSE for a type it lacks
SIZE_RULES(minutes, type) ==
  CASE type = Str("fish") -> [found |-> TRUE, min |-> 10, max |-> 500]
    [] type = Str("crab") -> [found |-> TRUE, min |-> 50, max |-> 120]
    [] type = Str("jelly") -> [found |-> TRUE, min |-> 30, max |-> 80]
    [] type = Str("elecJelly") -> [found |-> TRUE, min |-> 40, max |-> 90]
    [] type = Str("sushi") -> [found |-> TRUE, min |-> 30, max |-> 30]
    [] type = Str("puffer") ->
         [found |-> TRUE, min |-> 30,
          max |-> IF FirstCopy(minutes) THEN 180 ELSE 240]
    [] OTHER -> [found |-> FALSE, min |-> 0, max |-> 0]

\* the largest x in lo..hi with x * x <= v
RECURSIVE SqrtBetween(_, _, _)
SqrtBetween(v, lo, hi) ==
  IF lo >= hi THEN lo
  ELSE LET mid == (lo + hi + 1) \div 2
       IN  IF mid * mid <= v
           THEN SqrtBetween(v, mid, hi)
           ELSE SqrtBetween(v, lo, mid - 1)

\* Math.sqrt of a number, NaN below zero
MathSqrt(a) ==
  LET x == ToNumber(a)
  IN  IF IsFinite(x) /\ x.n >= 0
      THEN Num(SqrtBetween(x.n * Milli, 0, x.n + Milli))
      ELSE NaN

\* Math.min(a, b)
MathMin(a, b) ==
  LET x == ToNumber(a)
      y == ToNumber(b)
  IN  IF IsFinite(x) /\ IsFinite(y)
      THEN (IF x.n <= y.n THEN x ELSE y)
      ELSE NaN

\* a > ms for a limit in whole milliseconds, computed without forming
\* ms * Milli (an hour in thousandths of a millisecond exceeds 2^31)
GtMs(a, ms) ==
  LET x == ToNumber(a)
  IN  /\ IsFinite(x)
      /\ \/ x.n \div Milli > ms
         \/ (x.n \div Milli = ms /\ x.n % Milli > 0)

\* Math.abs(a - b) <= 3
WithinThree(a, b) ==
  LET d == Sub(a, b)
  IN  IsFinite(d) /\ d.n <= 3 * Milli /\ -d.n <= 3 * Milli

\* section 1, the structural checks, from position p: "reject" at the first
\* return false, "throw" where the first copy destructures a null element,
\* else the t of the last event
RECURSIVE Structural(_, _, _, _, _, _)
Structural(minutes, items, p, prevIdx, prevT, usedIdx) ==
  IF p > Len(items) THEN [end |-> "done", prevT |-> prevT]
  ELSE
    LET ev == items[p]
        reject == [end |-> "reject", prevT |-> prevT]
    IN  IF ~ev.obj
        THEN (IF FirstCopy(minutes)
              THEN [end |-> "throw", prevT |-> prevT] ELSE reject)
        ELSE IF TypeOf(ev.idx) # "number" \/ TypeOf(ev.t) # "number"
             THEN reject
        ELSE IF ~FirstCopy(minutes) /\ ~IsInteger(ev.idx) THEN reject
        ELSE IF Le(ev.idx, prevIdx) \/ ev.idx \in usedIdx THEN reject
        ELSE IF Lt(ev.t, prevT) \/ (~FirstCopy(minutes) /\ Lt(ev.t, Whole(0)))
             THEN reject
        ELSE Structural(minutes, items, p + 1, ev.idx, ev.t,
                        usedIdx \cup {ev.idx})

\* section 3, the simulation of the run, from position p with the score, the
\* player size and the end of the power-up (ms): the score, or "reject"
RECURSIVE Simulate(_, _, _, _, _, _)
Simulate(minutes, items, p, score, size, poweredUpUntil) ==
  IF p > Len(items) THEN [end |-> "done", score |-> score]
  ELSE
    LET ev == items[p]
        rule == SIZE_RULES(minutes, ev.type)
        prey == ev.size
        powered == Le(ev.t, poweredUpUntil)
        after == Add(ev.t, Whole(10000))
        eaten == Add(score, IF ev.type = Str("sushi")
                            THEN Whole(50) ELSE MathFloor(prey))
        grown ==
          CASE ev.type = Str("sushi") -> size
            [] ev.type = Str("jelly") -> MathMax(Scale(size, 6, 10), Whole(25))
            [] ev.type = Str("elecJelly") -> size
            [] OTHER -> Add(size, MathMin(Scale(MathSqrt(prey), 5, 100),
                                          Num(1500)))
        until ==
          IF ev.type = Str("sushi") \/ (~FirstCopy(minutes) /\ Truthy(ev.ultra))
          THEN after ELSE poweredUpUntil
    IN  IF \/ ~rule.found
           \/ (~FirstCopy(minutes) /\ TypeOf(prey) # "number")
           \/ Lt(prey, Num(rule.min * Milli - 100))
           \/ Gt(prey, Num(rule.max * Milli + 100))
        THEN [end |-> "reject", score |-> score]
        ELSE IF ~powered /\ Lt(Scale(size, 115, 100), prey)
             THEN [end |-> "reject", score |-> score]
             ELSE Simulate(minutes, items, p + 1, eaten, grown, until)

\* verifyReplay({seed, eatenEvents, finalScore, gameTime}) of the deployed
\* copy: "true", "false", or "thrown" for an exception (a missing argument
\* object, a null element in the first copy); no statement reads o.seed
sessionVerifyReplay(minutes, o) ==
  LET items == o.eatenEvents.items
      first == Structural(minutes, items, 1, Whole(-1), Whole(-1), {})
      run == Simulate(minutes, items, 1, Whole(0), Whole(25), Whole(-1000))
      verdict ==
        IF first.end = "throw" THEN "thrown"
        ELSE IF first.end = "reject" THEN "false"
        ELSE IF \/ Lt(o.gameTime, first.prevT)
                \/ GtMs(o.gameTime, MAX_EXPECTED_DURATION_MS(minutes))
             THEN "false"
        ELSE IF run.end = "reject" THEN "false"
        ELSE IF WithinThree(run.score, o.finalScore) THEN "true" ELSE "false"
  IN  IF ~o.defined THEN "thrown"
      ELSE IF FirstCopy(minutes)
      THEN IF ~o.eatenEvents.isArray \/ Len(items) = 0 THEN "false" ELSE verdict
      ELSE IF ~o.eatenEvents.isArray THEN "false"
           ELSE IF \/ ~IsFinite(o.finalScore)
                   \/ Lt(o.finalScore, Whole(0))
                   \/ ~IsFinite(o.gameTime)
                   \/ Lt(o.gameTime, Whole(0))
                THEN "false"
           ELSE IF Len(items) = 0
                THEN (IF StrictEq(o.finalScore, Whole(0)) THEN "true" ELSE "false")
           ELSE verdict

(* ---------------------------------------------------------------------- *)
(* The arguments of the invocation                                         *)
(* ---------------------------------------------------------------------- *)

\* largest schedule index the submitted events and eatenBy name
MaxIdx == 2
\* largest length of the eaten array
MaxEaten == 2

Seeds == {SeedA, SeedB}

\* the state of the schedule loop after k iterations
RECURSIVE LoopState(_, _)
LoopState(seed, k) ==
  IF k = 0 THEN LoopStart ELSE NextEntry(seed, LoopState(seed, k - 1))

\* the schedule verifyReplay builds for a seed and a maximum index
buildSchedule(seed, maxIndex) == LoopState(seed, maxIndex + 1).schedule

\* the schedules of the seeds, as far as the submitted claims look
Schedules == [b \in Seeds |-> buildSchedule(b, MaxIdx + MaxEaten)]

\* variant of EventLoop: an event whose idx is not above the idx of the event
\* before it is rejected, as sessionRepository.verifyReplay does
RECURSIVE EventLoopAscending(_, _, _, _, _)
EventLoopAscending(items, sched, p, score, finalScore) ==
  IF p > Len(items)
  THEN IF ~StrictEq(score, finalScore) THEN "score" ELSE "ok"
  ELSE LET e == EventExit(items[p], sched)
       IN  IF p > 1 /\ Le(items[p].idx, items[p - 1].idx)
           THEN "noEntry"
           ELSE IF e # "pass"
                THEN e
                ELSE EventLoopAscending(items, sched, p + 1,
                       Add(score, Points(items[p].type.s, items[p].size)),
                       finalScore)

\* the per-event loop from position p with the score accumulated so far, and
\* the final score comparison: the return statement taken
RECURSIVE EventLoop(_, _, _, _, _)
EventLoop(items, sched, p, score, finalScore) ==
  IF p > Len(items)
  THEN IF ~StrictEq(score, finalScore) THEN "score" ELSE "ok"
  ELSE LET e == EventExit(items[p], sched)
       IN  IF e # "pass"
           THEN e
           ELSE EventLoop(items, sched, p + 1,
                          Add(score, Points(items[p].type.s, items[p].size)),
                          finalScore)

\* verifyReplay as a function of its argument: the return statement the
\* invocation takes, "thrown" when it ends with an exception
verifyReplay(a) ==
  IF ~a.defined THEN "thrown"
  ELSE IF Malformed(a) THEN "malformed"
  ELSE IF Len(a.eaten.items) = 0
       THEN (IF ZeroScore(a.finalScore) THEN "emptyOk" ELSE "emptyNonZero")
  ELSE IF \E i \in DOMAIN a.eaten.items : ~a.eaten.items[i].obj THEN "thrown"
  ELSE LET m == MathMax(ReduceMaxIdx(a.eaten.items, Whole(-1)),
                        IF TypeOf(a.eatenBy) = "number"
                        THEN a.eatenBy ELSE Whole(-1))
       IN  IF Lt(m, Whole(0)) THEN "missingIdx"
           ELSE IF ~ValidArrayLength(Add(m, Whole(1))) THEN "thrown"
           ELSE LET sched == buildSchedule(a.seed.s, m.n \div Milli)
                    runDurationMs == Sub(a.endTime, a.startTime)
                IN  IF EatenByInvalid(a.eatenBy) THEN "eatenBy"
                    ELSE IF SessionWindowInvalid(a) THEN "startEnd"
                    ELSE IF ~HasEntry(sched, a.eatenBy) THEN "killerEntry"
                    ELSE IF KillerAfterEnd(runDurationMs,
                              EntryAt(sched, a.eatenBy).spawnTimeMs)
                         THEN "killerAfter"
                    ELSE IF KillerTooOld(runDurationMs,
                              EntryAt(sched, a.eatenBy).spawnTimeMs)
                         THEN "killerOld"
                    ELSE EventLoop(a.eaten.items, sched, 1, Whole(0),
                                   a.finalScore)

\* spawnTimeMs and spec of schedule index i
SpawnOf(seed, i) == Schedules[seed][i + 1].spawnTimeMs
SpecOf(seed, i) == Schedules[seed][i + 1].spec

\* the size a client reports for a spawn (thousandths)
ReportedSize(spec) ==
  CASE spec.kind = "sushi" -> 30 * Milli
    [] spec.kind = "puffer" -> spec.baseSize
    [] OTHER -> spec.size

\* the event an honest client submits for index i, eaten 500 ms after it spawned
HonestEvent(seed, i) ==
  [obj |-> TRUE,
   idx |-> Whole(i),
   t |-> Whole(SpawnOf(seed, i) + 500),
   type |-> Str(IF SpecOf(seed, i).kind = "electricJelly"
                THEN "elecJelly" ELSE SpecOf(seed, i).kind),
   size |-> Num(ReportedSize(SpecOf(seed, i))),
   ultra |-> Bool(SpecOf(seed, i).ultra)]

\* a null element of the eaten array
NullEvent ==
  [obj |-> FALSE, idx |-> Undefined, t |-> Undefined, type |-> Undefined,
   size |-> Undefined, ultra |-> Undefined]

\* the score a client reports for a list of events
RECURSIVE ReportedScore(_)
ReportedScore(items) ==
  IF items = << >>
  THEN Whole(0)
  ELSE LET ev == Head(items)
       IN  Add(ReportedScore(Tail(items)),
               IF ev.type = Str("sushi") THEN Whole(50) ELSE MathFloor(ev.size))

\* the claim of a run of seed b that ate items and was killed by index k
\* one second after k spawned
BaseArg(b, items, k) ==
  [defined |-> TRUE,
   seed |-> Str(b),
   eaten |-> [isArray |-> TRUE, items |-> items],
   finalScore |-> ReportedScore(items),
   gameTime |-> Whole(SpawnOf(b, k) + 1000),
   eatenBy |-> Whole(k),
   startTime |-> Whole(1000),
   endTime |-> Whole(1000 + SpawnOf(b, k) + 1000)]

\* no argument object at all
NoArg ==
  [defined |-> FALSE,
   seed |-> Undefined,
   eaten |-> [isArray |-> FALSE, items |-> << >>],
   finalScore |-> Undefined,
   gameTime |-> Undefined,
   eatenBy |-> Undefined,
   startTime |-> Undefined,
   endTime |-> Undefined]

\* the honest events of indices 0 .. n-1
HonestPrefix(b, n) == [p \in 1..n |-> HonestEvent(b, p - 1)]

\* index lists of length 1 .. MaxEaten: consecutive indices from any start,
\* wrapping around after MaxIdx
IdxLists ==
  {[p \in 1..n |-> (i + p - 1) % (MaxIdx + 1)] : i \in 0..MaxIdx, n \in 1..MaxEaten}

\* event lists with one element malformed: null, or its idx missing, NaN,
\* fractional or negative
BrokenItems(b) ==
  UNION { UNION { { [HonestPrefix(b, n) EXCEPT ![p] = ev] :
                      ev \in {NullEvent}
                        \cup {[HonestEvent(b, p - 1) EXCEPT !.idx = x] :
                                x \in {Undefined, NaN, Whole(-1),
                                       Num((p - 1) * Milli + 500)}} } :
                  p \in 1..n } :
          n \in 1..MaxEaten }

\* the event lists of the claims with malformed fields
ShapeItems(b) ==
  {<< >>} \cup {HonestPrefix(b, n) : n \in 1..MaxEaten} \cup BrokenItems(b)

\* claims with malformed or missing top-level fields
ShapeArgs ==
  {NoArg} \cup
  UNION { UNION { { [BaseArg(b, items, MaxIdx) EXCEPT
                       !.seed = sd, !.eaten.isArray = ia, !.finalScore = fs,
                       !.eatenBy = IF rest THEN @ ELSE Undefined,
                       !.gameTime = IF rest THEN @ ELSE Undefined,
                       !.startTime = IF rest THEN @ ELSE Undefined,
                       !.endTime = IF rest THEN @ ELSE Undefined] :
                      sd \in {Str(b), Undefined, Whole(7)},
                      ia \in BOOLEAN,
                      fs \in {ReportedScore(items),
                              Add(ReportedScore(items), Whole(1)),
                              Whole(0), NaN, Undefined},
                      rest \in BOOLEAN } :
                  items \in ShapeItems(b) } :
          b \in Seeds }

\* values submitted as eatenBy
EatenByValues ==
  {Undefined, Str("1"), NaN, Whole(-1), Num(-500)}
    \cup {Whole(i) : i \in 0..MaxIdx}
    \cup {Num(i * Milli + 500) : i \in 0..MaxIdx}

\* the schedule index whose spawn time the submitted times are placed around
KillerIdx(eb) == IF IsInteger(eb) /\ eb.n >= 0 THEN eb.n \div Milli ELSE 0

\* claims of honest events with every eatenBy value and with run durations and
\* game times around the limits of the session window and the killer window
TimeArgs ==
  UNION { LET ks == SpawnOf(b, KillerIdx(eb))
              base == [BaseArg(b, HonestPrefix(b, n), 0) EXCEPT !.eatenBy = eb]
          IN  { [base EXCEPT !.endTime = Whole(1000 + dur), !.gameTime = gt] :
                  dur \in {-1, 0, 1, ks - 1, ks, ks + 1000, ks + 120000,
                           ks + 120001},
                  gt \in {Whole(ks + 120000), Undefined, NaN} }
              \cup
              { [base EXCEPT !.endTime = Whole(1000 + ks + g + d),
                             !.gameTime = Whole(ks + g)] :
                  g \in {0, 1000}, d \in {2999, 3000, 3001} }
              \cup
              { [base EXCEPT !.startTime = x, !.endTime = y] :
                  x \in {Undefined, NaN, Whole(1000)},
                  y \in {Undefined, NaN} } :
          b \in Seeds, n \in 1..MaxEaten, eb \in EatenByValues }

\* the values an event submits in place of the field f of the honest event
Deviations(b, i, f) ==
  LET sp == SpawnOf(b, i)
      spec == SpecOf(b, i)
      bounds == TYPE_SIZE_BOUNDS(spec.kind, spec.fishTypeIndex)
  IN  CASE f = "t" ->
             {Whole(sp - 1), Whole(sp), Whole(sp + 500), Whole(sp + 60000),
              Whole(sp + 60001), NaN, Undefined}
        [] f = "type" ->
             {Str(k) : k \in Kinds \cup {"elecJelly"}} \cup {Undefined}
        [] f = "size" ->
             {Num(bounds.minSize * Milli - 2), Num(bounds.minSize * Milli - 1),
              Num(bounds.minSize * Milli + 500), Num(bounds.maxSize * Milli),
              Num(bounds.maxSize * Milli + 1), Num(bounds.maxSize * Milli + 2),
              NaN, Undefined}
        [] f = "ultra" ->
             {Bool(TRUE), Bool(FALSE), Undefined, Whole(0), Whole(1)}

Deviate(ev, f, x) ==
  CASE f = "t" -> [ev EXCEPT !.t = x]
    [] f = "type" -> [ev EXCEPT !.type = x]
    [] f = "size" -> [ev EXCEPT !.size = x]
    [] f = "ultra" -> [ev EXCEPT !.ultra = x]

\* claims of a valid run in which one event submits another value for one
\* of its fields, with the score of the submitted events or one more
EventArgs ==
  UNION { UNION { LET items == [p \in DOMAIN il |-> HonestEvent(b, il[p])]
                  IN  { LET its == [items EXCEPT ![q] = Deviate(items[q], f, x)]
                        IN  [BaseArg(b, its, MaxIdx) EXCEPT
                               !.finalScore = Add(@, Whole(more))] :
                          x \in Deviations(b, il[q], f), more \in {0, 1} } :
                  q \in DOMAIN il, f \in {"t", "type", "size", "ultra"} } :
          b \in Seeds, il \in IdxLists }

\* claims of a run that names one schedule index in two events: the honest
\* event of the index twice, or the honest events of two indices and then the
\* first again, with the score of the submitted events
RepeatArgs ==
  UNION { { BaseArg(b, << HonestEvent(b, i), HonestEvent(b, i) >>, MaxIdx) }
            \cup { BaseArg(b, << HonestEvent(b, i), HonestEvent(b, j),
                                 [HonestEvent(b, i) EXCEPT
                                    !.t = Whole(SpawnOf(b, j) + 500)] >>,
                            MaxIdx) :
                      j \in (0..MaxIdx) \ {i} } :
          b \in Seeds, i \in 0..MaxIdx }

Args == ShapeArgs \cup TimeArgs \cup EventArgs \cup RepeatArgs

Init ==
  /\ arg \in Args
  /\ pc = "call"
  /\ streams = FALSE
  /\ specCalls = 0
  /\ timingCalls = 0
  /\ maxIdx = Undefined
  /\ schedule = << >>
  /\ cursorSec = 0
  /\ pos = 0
  /\ computedScore = Undefined
  /\ exit = "none"
  /\ result = NoResult
  /\ log = << >>
  /\ ttl = 90
  /\ EmptyStore
  /\ BeyondIdle

Spec == Init /\ [][Next]_vars

(* ---------------------------------------------------------------------- *)
(* Invocations one after the other.  verifyReplay has no await: a call     *)
(* runs to completion before the process starts the next one.             *)
(* ---------------------------------------------------------------------- *)

\* invocations that follow the first one
MaxRuns == 2

\* the claims submitted in a sequence of invocations: honest runs of both
\* seeds that name different largest indices, an inflated score, no argument
SeqArgs ==
  UNION { { BaseArg(b, HonestPrefix(b, 1), 0),
            BaseArg(b, HonestPrefix(b, 1), 2),
            BaseArg(b, HonestPrefix(b, 2), 1) } : b \in Seeds }
    \cup { [BaseArg(SeedA, HonestPrefix(SeedA, 1), 1) EXCEPT
              !.finalScore = Add(@, Whole(1))],
           NoArg }

\* what the invocation that has ended leaves behind: its argument, how it
\* ended, and the schedule it built when it got past the schedule loop
Finished ==
  [arg |-> arg,
   outcome |-> IF pc = "thrown" THEN "thrown" ELSE exit,
   result |-> result,
   built |-> pc = "returned"
               /\ exit \notin {"malformed", "emptyOk", "emptyNonZero",
                               "missingIdx"},
   maxIdx |-> maxIdx,
   schedule |-> schedule]

\* the next call of verifyReplay: new parameters, nothing returned yet; the
\* locals of the call that ended are no longer reachable and are left as
\* they are until the new call declares its own
Reinvoke ==
  /\ pc \in {"returned", "thrown"}
  /\ Len(log) < MaxRuns
  /\ log' = Append(log, Finished)
  /\ arg' \in SeqArgs
  /\ pc' = "call"
  /\ exit' = "none"
  /\ result' = NoResult
  /\ UNCHANGED << streams, specCalls, timingCalls, maxIdx, schedule,
                  cursorSec, pos, computedScore, store, beyond >>

InitSeq ==
  /\ arg \in SeqArgs
  /\ pc = "call"
  /\ streams = FALSE
  /\ specCalls = 0
  /\ timingCalls = 0
  /\ maxIdx = Undefined
  /\ schedule = << >>
  /\ cursorSec = 0
  /\ pos = 0
  /\ computedScore = Undefined
  /\ exit = "none"
  /\ result = NoResult
  /\ log = << >>
  /\ ttl = 90
  /\ EmptyStore
  /\ BeyondIdle

NextSeq == Next \/ Reinvoke

SpecSeq == InitSeq /\ [][NextSeq]_vars

(* ---------------------------------------------------------------------- *)
(* The session store on its own                                            *)
(* ---------------------------------------------------------------------- *)

InitStore ==
  /\ arg = NoArg
  /\ pc = "idle"
  /\ streams = FALSE
  /\ specCalls = 0
  /\ timingCalls = 0
  /\ maxIdx = Undefined
  /\ schedule = << >>
  /\ cursorSec = 0
  /\ pos = 0
  /\ computedScore = Undefined
  /\ exit = "none"
  /\ result = NoResult
  /\ log = << >>
  /\ ttl \in SESSION_TTL_MINUTES
  /\ EmptyStore
  /\ BeyondIdle

SpecStore == InitStore /\ [][NextStore]_vars

(* ---------------------------------------------------------------------- *)
(* Calls of sessionRepository.verifyReplay, one after the other             *)
(* ---------------------------------------------------------------------- *)

\* calls of sessionRepository.verifyReplay
MaxReplays == 2

\* an eaten event as the client records it
Eaten(idx, t, type, size, ultra) ==
  [obj |-> TRUE, idx |-> idx, t |-> Whole(t), type |-> Str(type),
   size |-> size, ultra |-> Bool(ultra)]

\* the payload {eatenEvents, finalScore, gameTime} of a score submission
Payload(items, finalScore, gameTime) ==
  [defined |-> TRUE,
   eatenEvents |-> [isArray |-> TRUE, items |-> items],
   finalScore |-> finalScore,
   gameTime |-> gameTime]

\* the payload of the claim an honest client of seed b submits after eating
\* the first n spawns
HonestPayload(b, n) ==
  LET a == BaseArg(b, HonestPrefix(b, n), n)
  IN  Payload(a.eaten.items, a.finalScore, a.gameTime)

\* runs recorded by a client: small fish, a sushi eaten by a player too small
\* for it, an ultra fish followed by large prey, events out of order or
\* repeated, a null element
ReplayRuns ==
  LET fish0 == Eaten(Whole(0), 500, "fish", Num(25500), FALSE)
      fish1 == Eaten(Whole(1), 900, "fish", Whole(26), FALSE)
      ultra1 == Eaten(Whole(1), 900, "fish", Whole(20), TRUE)
      jelly2 == Eaten(Whole(2), 5000, "jelly", Whole(60), FALSE)
      sushi1 == Eaten(Whole(1), 900, "sushi", Whole(30), FALSE)
  IN  { << fish0 >>, << fish0, fish1 >>, << fish1, fish0 >>,
        << fish0, [fish1 EXCEPT !.idx = Whole(0)] >>,
        << fish0, sushi1 >>, << fish0, ultra1 >>,
        << fish0, ultra1, jelly2 >>, << fish0, fish1, jelly2 >>,
        << fish0, NullEvent >>,
        << [fish0 EXCEPT !.idx = NaN], [fish1 EXCEPT !.idx = NaN] >>,
        << [fish0 EXCEPT !.size = Undefined] >>,
        << [fish0 EXCEPT !.type = Str("electricJelly")] >> }

\* the payloads submitted: honest ones of both seeds, the recorded runs with
\* their score, and payloads with another score or game time (game times
\* stay below 2^31 / Milli ms, under the hour of the second copy)
ReplayPayloads ==
  {HonestPayload(b, n) : b \in Seeds, n \in 1..2}
    \cup {Payload(r, ReportedScore(r), Whole(6000)) : r \in ReplayRuns}
    \cup {Payload(<< >>, fs, Whole(0)) : fs \in {Whole(0), Whole(1)}}
    \cup {Payload(HonestPrefix(SeedA, 1), fs, gt) :
            fs \in {Whole(28), Whole(29), Whole(21), NaN},
            gt \in {Whole(0), Whole(20 * 60 * 1000),
                    Whole(20 * 60 * 1000 + 1), Undefined}}
    \cup {[Payload(<< >>, Whole(0), Whole(0)) EXCEPT !.eatenEvents.isArray = FALSE],
          [Payload(<< >>, Whole(0), Whole(0)) EXCEPT !.defined = FALSE]}

\* the argument of the call: the seed of the session and the payload
ReplayOpts(seed, o) ==
  [defined |-> o.defined, seed |-> Str(seed), eatenEvents |-> o.eatenEvents,
   finalScore |-> o.finalScore, gameTime |-> o.gameTime]

\* a call of verifyReplay with the seed of a session and a submitted payload
SessionVerifyReplay(seed, o) ==
  /\ Len(replays) < MaxReplays
  /\ replays' = Append(replays,
       [seed |-> seed, payload |-> o,
        verdict |-> sessionVerifyReplay(ttl, ReplayOpts(seed, o))])
  /\ UNCHANGED << locals, log, store, picked, scoring, mongo >>

NextReplay == \E seed \in Seeds, o \in ReplayPayloads : SessionVerifyReplay(seed, o)

InitReplay ==
  /\ arg = NoArg
  /\ pc = "idle"
  /\ streams = FALSE
  /\ specCalls = 0
  /\ timingCalls = 0
  /\ maxIdx = Undefined
  /\ schedule = << >>
  /\ cursorSec = 0
  /\ pos = 0
  /\ computedScore = Undefined
  /\ exit = "none"
  /\ result = NoResult
  /\ log = << >>
  /\ ttl \in SESSION_TTL_MINUTES
  /\ EmptyStore
  /\ replays = << >>
  /\ picked = NoPick
  /\ NoScores
  /\ NoMongo

SpecReplay == InitReplay /\ [][NextReplay]_vars

(* ---------------------------------------------------------------------- *)
(* The kind sampling on its own, as a function of the scaled draw           *)
(* ---------------------------------------------------------------------- *)

\* the values of r = specRand() * TOTAL_SPEC_WEIGHT the walk is entered
\* with: the products of the draws 0.000 .. 1.000 (thousandths), the last
\* one standing for a product that rounding has lifted to the total itself
ScaledDraws == {u * TOTAL_SPEC_WEIGHT : u \in 0..Milli}

\* lines 140-148 for the value of r computed at line 139
PickSpawnKind ==
  /\ ~picked.called
  /\ picked' = [picked EXCEPT !.called = TRUE, !.kind = KindOf(picked.r)]
  /\ UNCHANGED << locals, log, store, replays, scoring, mongo >>

NextKind == PickSpawnKind

InitKind ==
  /\ arg = NoArg
  /\ pc = "idle"
  /\ streams = FALSE
  /\ specCalls = 0
  /\ timingCalls = 0
  /\ maxIdx = Undefined
  /\ schedule = << >>
  /\ cursorSec = 0
  /\ pos = 0
  /\ computedScore = Undefined
  /\ exit = "none"
  /\ result = NoResult
  /\ log = << >>
  /\ ttl = 90
  /\ EmptyStore
  /\ replays = << >>
  /\ picked \in {[NoPick EXCEPT !.r = r] : r \in ScaledDraws}
  /\ NoScores
  /\ NoMongo

SpecKind == InitKind /\ [][NextKind]_vars

(* ---------------------------------------------------------------------- *)
(* The score repository on its own                                         *)
(* ---------------------------------------------------------------------- *)

InitScores ==
  /\ arg = NoArg
  /\ pc = "idle"
  /\ streams = FALSE
  /\ specCalls = 0
  /\ timingCalls = 0
  /\ maxIdx = Undefined
  /\ schedule = << >>
  /\ cursorSec = 0
  /\ pos = 0
  /\ computedScore = Undefined
  /\ exit = "none"
  /\ result = NoResult
  /\ log = << >>
  /\ ttl = 90
  /\ EmptyStore
  /\ replays = << >>
  /\ picked = NoPick
  /\ NoScores
  /\ NoMongo

SpecScores == InitScores /\ [][NextScores]_vars

\* the invocations of initDB that the repository functions make, in any
\* interleaving, with the environment set or not
InitDB ==
  /\ arg = NoArg
  /\ pc = "idle"
  /\ streams = FALSE
  /\ specCalls = 0
  /\ timingCalls = 0
  /\ maxIdx = Undefined
  /\ schedule = << >>
  /\ cursorSec = 0
  /\ pos = 0
  /\ computedScore = Undefined
  /\ exit = "none"
  /\ result = NoResult
  /\ log = << >>
  /\ ttl = 90
  /\ EmptyStore
  /\ replays = << >>
  /\ picked = NoPick
  /\ NoScores
  /\ db = NoDb
  /\ client = NoClient
  /\ clients = << >>
  /\ env \in BOOLEAN
  /\ inits = [i \in 1..MaxInits |-> NoInit]

SpecDB == InitDB /\ [][NextDB]_vars

(* ---------------------------------------------------------------------- *)
(* Properties                                                              *)
(* ---------------------------------------------------------------------- *)

Items == arg.eaten.items

\* the claim has a string seed, an array eaten and a number finalScore
WellShaped ==
  /\ arg.defined
  /\ arg.seed.ty = "string"
  /\ arg.eaten.isArray
  /\ arg.finalScore.ty = "number"

\* every element of eaten is an object whose idx is a non-negative integer
WellFormedEvents ==
  \A p \in DOMAIN Items :
    Items[p].obj /\ IsInteger(Items[p].idx) /\ Items[p].idx.n >= 0

Rejection(text) == [ok |-> FALSE, failedDueTo |-> Str(text)]

\* C1: verifyReplay never throws: no invocation, whatever its argument, ends
\* with an exception instead of a returned {ok, failedDueTo}.
C1_NeverThrows == pc # "thrown"

\* C2: when a non-empty replay is accepted, finalScore is exactly the sum of
\* 50 per sushi event and floor(size) per other event; and when all events
\* have passed the per-event checks and finalScore differs from that sum, the
\* result is the computed-score-mismatch rejection.
C2_ExactScore ==
  (pc = "returned" /\ arg.defined /\ arg.eaten.isArray /\ Len(Items) > 0) =>
    /\ result.ok => StrictEq(arg.finalScore, ReportedScore(Items))
    /\ (pos > Len(Items) /\ ~StrictEq(arg.finalScore, ReportedScore(Items))) =>
         result = Rejection("Verification failed: computed score mismatch")

\* an accepted replay of two events, one a sushi, one with a fractional size
C2_Witness ==
  /\ pc = "returned"
  /\ result.ok
  /\ Len(Items) = 2
  /\ \E p \in DOMAIN Items : Items[p].type = Str("sushi")
  /\ \E p \in DOMAIN Items : IsFinite(Items[p].size) /\ ~IsInteger(Items[p].size)

\* C3: a returned result is {ok: true, failedDueTo: null} or {ok: false,
\* failedDueTo: a non-empty string}, and the string of a rejection belongs to
\* the return statement that produced it and to no other.
C3_TwoShapes ==
  pc = "returned" =>
    /\ result.ok <=> result.failedDueTo = Null
    /\ ~result.ok =>
         /\ result.failedDueTo.ty = "string"
         /\ result.failedDueTo.s # ""
         /\ \A i \in DOMAIN Exits :
              Reason(Exits[i]) = result.failedDueTo => Exits[i] = exit

\* a rejection by the size check
C3_Witness == pc = "returned" /\ ~result.ok /\ exit = "size"

\* C4: with a string seed and an empty eaten array, verifyReplay returns, and
\* returns ok: true exactly when finalScore is the number 0, whatever eatenBy
\* and the times are; a number other than 0 gets the empty-eaten-array
\* rejection.
C4_EmptyRunLaw ==
  (arg.defined /\ arg.seed.ty = "string" /\ arg.eaten.isArray /\ Len(Items) = 0)
    => /\ pc # "thrown"
       /\ pc = "returned" =>
            /\ result.ok <=> arg.finalScore = Whole(0)
            /\ (arg.finalScore.ty = "number" /\ arg.finalScore # Whole(0)) =>
                 result = Rejection(
                   "Verification failed: empty eaten array but non-zero score")

\* an empty run accepted without eatenBy, gameTime, startTime and endTime
C4_Witness ==
  /\ pc = "returned"
  /\ arg.eaten.isArray
  /\ Len(Items) = 0
  /\ result.ok
  /\ arg.eatenBy = Undefined
  /\ arg.gameTime = Undefined
  /\ arg.startTime = Undefined
  /\ arg.endTime = Undefined

\* C5: when seed is not a string, eaten not an array or finalScore not a
\* number, the invocation returns the malformed-arguments rejection and has
\* created no stream, taken no draw and built no schedule entry.
C5_ShapeCheck ==
  (/\ arg.defined
   /\ \/ arg.seed.ty # "string"
      \/ ~arg.eaten.isArray
      \/ arg.finalScore.ty # "number")
    => /\ pc \in {"call", "sanity", "returned"}
       /\ ~streams
       /\ specCalls = 0
       /\ timingCalls = 0
       /\ schedule = << >>
       /\ pc = "returned" =>
            result = Rejection("Verification failed: malformed arguments")

\* a claim rejected as malformed for its finalScore alone
C5_Witness ==
  /\ pc = "returned"
  /\ exit = "malformed"
  /\ arg.seed.ty = "string"
  /\ arg.eaten.isArray
  /\ Len(Items) > 0
  /\ arg.finalScore.ty # "number"

\* C6: a non-empty replay is accepted only if eatenBy is a non-negative
\* integer with a schedule entry, and a missing, non-numeric, negative or
\* non-integer eatenBy always ends in a returned rejection.  Stated for
\* claims whose events are all well formed.
C6_EatenByChecked ==
  (WellShaped /\ Len(Items) > 0 /\ WellFormedEvents) =>
    /\ (pc = "returned" /\ result.ok) =>
         IsInteger(arg.eatenBy) /\ HasEntry(schedule, arg.eatenBy)
    /\ (~IsInteger(arg.eatenBy) \/ arg.eatenBy.n < 0) =>
         /\ pc # "thrown"
         /\ pc = "returned" => ~result.ok

\* C7: for a non-empty replay with numeric startTime, endTime and gameTime, a
\* run with endTime <= startTime or endTime - startTime > gameTime + 3000 is
\* never accepted; the session-window check, when the invocation reaches it,
\* rejects exactly these runs, with the start/end-time reason; a duration of
\* exactly gameTime + 3000 passes it.
C7_SessionWindow ==
  (/\ pc = "returned"
   /\ WellShaped
   /\ Len(Items) > 0
   /\ IsFinite(arg.startTime)
   /\ IsFinite(arg.endTime)
   /\ IsFinite(arg.gameTime))
    => LET duration == arg.endTime.n - arg.startTime.n
           bad == duration <= 0 \/ duration > arg.gameTime.n + 3000 * Milli
       IN  /\ bad => ~result.ok
           /\ exit \notin {"missingIdx", "eatenBy"} => (bad <=> exit = "startEnd")
           /\ exit = "startEnd" =>
                result = Rejection(
                  "Verification failed: missing/invalid startTime or endTime")

\* an accepted run that lasted exactly gameTime + 3000
C7_Witness ==
  /\ pc = "returned"
  /\ result.ok
  /\ Len(Items) > 0
  /\ IsFinite(arg.gameTime)
  /\ arg.endTime.n - arg.startTime.n = arg.gameTime.n + 3000 * Milli

\* C8: a non-empty replay is accepted only if the schedule entry at eatenBy
\* exists and 0 <= (endTime - startTime) - spawnTimeMs <= 120000.
C8_KillerPlausible ==
  (pc = "returned" /\ result.ok /\ Len(Items) > 0) =>
    /\ HasEntry(schedule, arg.eatenBy)
    /\ IsFinite(arg.startTime)
    /\ IsFinite(arg.endTime)
    /\ LET age == (arg.endTime.n - arg.startTime.n)
                    - EntryAt(schedule, arg.eatenBy).spawnTimeMs * Milli
       IN  0 <= age /\ age <= 120000 * Milli

\* C9: an event passes the window check exactly when 0 <= dt <= 60000, dt
\* being t minus the spawnTimeMs of the entry at its idx; an event that fails
\* it gets the eaten-outside-allowed-window rejection.
C9_DwellWindow ==
  LET InWindow(ev) ==
        /\ IsFinite(ev.t)
        /\ LET dt == ev.t.n - EntryAt(schedule, ev.idx).spawnTimeMs * Milli
           IN  0 <= dt /\ dt <= 60000 * Milli
  IN  /\ pc \in {"events", "returned"} =>
           \A p \in DOMAIN Items : p < pos => InWindow(Items[p])
      /\ (pc = "returned" /\ exit \in {"type", "size", "ultra"}) =>
           InWindow(Items[pos])
      /\ (pc = "returned" /\ exit = "window") =>
           /\ ~InWindow(Items[pos])
           /\ result = Rejection(
                "Verification failed: eaten outside allowed window")

\* C10: an accepted replay holds only events whose type is the wire name of
\* the kind scheduled at their idx (elecJelly for electricJelly, the kind
\* itself otherwise); the type match, when an event reaches it, rejects every
\* other type with the type-mismatch reason.
C10_TypeMatch ==
  LET Wire(kind) == IF kind = "electricJelly" THEN "elecJelly" ELSE kind
      Matches(ev) ==
        ev.type = Str(Wire(EntryAt(schedule, ev.idx).spec.kind))
  IN  /\ (pc = "returned" /\ result.ok) =>
           \A p \in DOMAIN Items : Matches(Items[p])
      /\ pc \in {"events", "returned"} =>
           \A p \in DOMAIN Items : p < pos => Matches(Items[p])
      /\ (pc = "returned" /\ exit \in {"size", "ultra"}) => Matches(Items[pos])
      /\ (pc = "returned" /\ exit = "type") =>
           /\ ~Matches(Items[pos])
           /\ result = Rejection("Verification failed: type mismatch")

\* an event of a scheduled electricJelly rejected for the type electricJelly
C10_Witness ==
  /\ pc = "returned"
  /\ exit = "type"
  /\ EntryAt(schedule, Items[pos].idx).spec.kind = "electricJelly"
  /\ Items[pos].type = Str("electricJelly")

\* the size bounds of the entry scheduled at the idx of an event, thousandths
ScheduledBounds(ev) ==
  LET spec == EntryAt(schedule, ev.idx).spec
      b == TYPE_SIZE_BOUNDS(spec.kind, spec.fishTypeIndex)
  IN  [lo |-> b.minSize * Milli - 1, hi |-> b.maxSize * Milli + 1]

\* the invocation was rejected at the event at pos by one of the listed checks
RejectedAt(exits) ==
  pc = "returned" /\ exit \in exits /\ pos \in DOMAIN Items

\* C11: an event passes the size check if and only if minSize - 0.001 <= size
\* <= maxSize + 0.001, the bounds being those of the fish sub-type drawn for
\* its index, or the fixed bounds of its kind; an event that fails the check
\* gets the size-outside-bounds rejection.
C11_SizeBounds ==
  LET InBounds(ev) ==
        /\ IsFinite(ev.size)
        /\ ScheduledBounds(ev).lo <= ev.size.n
        /\ ev.size.n <= ScheduledBounds(ev).hi
  IN  /\ pc \in {"events", "returned"} =>
           \A p \in DOMAIN Items : p < pos => InBounds(Items[p])
      /\ RejectedAt({"ultra"}) => InBounds(Items[pos])
      /\ RejectedAt({"size"}) =>
           /\ ~InBounds(Items[pos])
           /\ result = Rejection("Verification failed: size outside bounds")

\* the kind scheduled for an event of the claim a, "none" when its idx is
\* not an index of the schedules
ScheduledKind(a, ev) ==
  IF /\ a.seed.s \in Seeds
     /\ IsInteger(ev.idx)
     /\ ev.idx.n >= 0
     /\ ev.idx.n \div Milli < Len(Schedules[a.seed.s])
  THEN EntryAt(Schedules[a.seed.s], ev.idx).spec.kind
  ELSE "none"

\* how the invocation ended: its return statement, or "thrown"
Outcome == IF pc = "thrown" THEN "thrown" ELSE exit

\* C12: an event scheduled as a fish passes the ultra check exactly when its
\* ultra, coerced to a boolean (missing is false), is the ultra flag drawn for
\* its index, and gets the ultra-flag-mismatch rejection otherwise; the
\* ultra of an event scheduled as another kind has no effect on the verdict.
C12_UltraFlag ==
  LET Drawn(ev) == EntryAt(schedule, ev.idx).spec
      Agrees(ev) == Truthy(ev.ultra) <=> Drawn(ev).ultra
  IN  /\ pc \in {"events", "returned"} =>
           \A p \in DOMAIN Items :
             (p < pos /\ Drawn(Items[p]).kind = "fish") => Agrees(Items[p])
      /\ RejectedAt({"ultra"}) =>
           /\ Drawn(Items[pos]).kind = "fish"
           /\ ~Agrees(Items[pos])
           /\ result = Rejection("Verification failed: ultra flag mismatch")
      /\ (pc \in {"returned", "thrown"} /\ WellShaped) =>
           \A p \in DOMAIN Items :
             (/\ Items[p].obj
              /\ ScheduledKind(arg, Items[p]) \notin {"fish", "none"}) =>
               \A u \in {Bool(TRUE), Bool(FALSE), Undefined, Whole(1)} :
                 verifyReplay([arg EXCEPT !.eaten.items[p].ultra = u]) = Outcome

\* an accepted run with an ultra fish reported ultra and an event of another
\* kind that reports ultra too
C12_Witness ==
  /\ pc = "returned"
  /\ result.ok
  /\ \E p \in DOMAIN Items :
       /\ EntryAt(schedule, Items[p].idx).spec.kind = "fish"
       /\ EntryAt(schedule, Items[p].idx).spec.ultra
  /\ \E p \in DOMAIN Items :
       /\ EntryAt(schedule, Items[p].idx).spec.kind # "fish"
       /\ Truthy(Items[p].ultra)

\* the event at position p is a sushi scheduled as a sushi, eaten inside the
\* dwell window of its index
WindowedSushi(p) ==
  LET ev == Items[p]
  IN  /\ ev.obj
      /\ ev.type = Str("sushi")
      /\ HasEntry(schedule, ev.idx)
      /\ EntryAt(schedule, ev.idx).spec.kind = "sushi"
      /\ IsFinite(ev.t)
      /\ LET dt == ev.t.n - EntryAt(schedule, ev.idx).spawnTimeMs * Milli
         IN  0 <= dt /\ dt <= 60000 * Milli

\* the score accumulated over the events before pos is 50 per sushi and
\* floor(size) per other event
ScoreSoFar ==
  (pc = "events" \/ (pc = "returned" /\ pos > 0)) =>
    computedScore = ReportedScore(SubSeq(Items, 1, pos - 1))

\* C13 as stated: whatever size it submits, a sushi event inside the dwell
\* window is never the event a run is rejected at, and adds exactly 50 to the
\* accumulated score.
C13_SushiAnySize ==
  /\ ScoreSoFar
  /\ RejectedAt({"noEntry", "window", "type", "size", "ultra"}) =>
       ~WindowedSushi(pos)

\* C13 amended: a sushi event inside the dwell window whose size passes the
\* size check (29.999 <= size <= 30.001, or a size that is missing or NaN)
\* adds exactly 50 to the accumulated score whatever that size; with any
\* other size it gets the size-outside-bounds rejection and adds nothing.
C13_SushiFixedScore ==
  /\ ScoreSoFar
  /\ (RejectedAt({"noEntry", "window", "type", "size", "ultra"})
        /\ WindowedSushi(pos)) =>
       /\ exit = "size"
       /\ IsFinite(Items[pos].size)
       /\ \/ Items[pos].size.n < 30 * Milli - 1
          \/ Items[pos].size.n > 30 * Milli + 1
  /\ pc \in {"events", "returned"} =>
       \A p \in DOMAIN Items :
         (p < pos /\ WindowedSushi(p) /\ IsFinite(Items[p].size)) =>
           /\ 30 * Milli - 1 <= Items[p].size.n
           /\ Items[p].size.n <= 30 * Milli + 1

\* an accepted run of one sushi that reports the size 29.999 and scores 50
C13_Witness ==
  /\ pc = "returned"
  /\ result.ok
  /\ \E p \in DOMAIN Items :
       /\ WindowedSushi(p)
       /\ Items[p].size = Num(30 * Milli - 1)
  /\ Len(Items) = 1
  /\ arg.finalScore = Whole(50)

\* the claim of an honest run, stated on the schedule of its seed: every
\* event names an index of the schedule, lies in the dwell window of that
\* index, carries its wire name, a size inside its bounds and (for a fish) its
\* ultra flag; finalScore is the score of the events; the session window is
\* valid; the entry at eatenBy spawned at most 120000 ms before the run ended
HonestClaim ==
  /\ WellShaped
  /\ arg.seed.s \in Seeds
  /\ LET sched == Schedules[arg.seed.s]
         Names(v) == IsInteger(v) /\ v.n >= 0 /\ v.n \div Milli < Len(sched)
         Entry(v) == sched[v.n \div Milli + 1]
         Wire(kind) == IF kind = "electricJelly" THEN "elecJelly" ELSE kind
         EventOk(ev) ==
           /\ ev.obj
           /\ Names(ev.idx)
           /\ IsFinite(ev.t)
           /\ 0 <= ev.t.n - Entry(ev.idx).spawnTimeMs * Milli
           /\ ev.t.n - Entry(ev.idx).spawnTimeMs * Milli <= 60000 * Milli
           /\ ev.type = Str(Wire(Entry(ev.idx).spec.kind))
           /\ IsFinite(ev.size)
           /\ LET b == TYPE_SIZE_BOUNDS(Entry(ev.idx).spec.kind,
                                        Entry(ev.idx).spec.fishTypeIndex)
              IN  /\ b.minSize * Milli - 1 <= ev.size.n
                  /\ ev.size.n <= b.maxSize * Milli + 1
           /\ Entry(ev.idx).spec.kind = "fish" =>
                (Truthy(ev.ultra) <=> Entry(ev.idx).spec.ultra)
         duration == arg.endTime.n - arg.startTime.n
     IN  /\ \A p \in DOMAIN Items : EventOk(Items[p])
         /\ IsFinite(arg.finalScore)
         /\ arg.finalScore = ReportedScore(Items)
         /\ IsFinite(arg.startTime)
         /\ IsFinite(arg.endTime)
         /\ IsFinite(arg.gameTime)
         /\ duration > 0
         /\ duration <= arg.gameTime.n + 3000 * Milli
         /\ Names(arg.eatenBy)
         /\ 0 <= duration - Entry(arg.eatenBy).spawnTimeMs * Milli
         /\ duration - Entry(arg.eatenBy).spawnTimeMs * Milli <= 120000 * Milli

\* C14: the claim of an honest run is accepted: the invocation does not throw
\* and returns {ok: true, failedDueTo: null}.
C14_HonestAccepted ==
  HonestClaim =>
    /\ pc # "thrown"
    /\ pc = "returned" => result = [ok |-> TRUE, failedDueTo |-> Null]

\* an accepted honest run killed by an index later than every eaten one, which
\* spawned exactly 120000 ms before the run ended
C14_Witness ==
  /\ pc = "returned"
  /\ result.ok
  /\ HonestClaim
  /\ Len(Items) > 0
  /\ \A p \in DOMAIN Items : Items[p].idx.n < arg.eatenBy.n
  /\ (arg.endTime.n - arg.startTime.n)
       - EntryAt(schedule, arg.eatenBy).spawnTimeMs * Milli = 120000 * Milli

\* the invocations that have ended so far, the current one included
Ended ==
  {log[i] : i \in DOMAIN log}
    \cup (IF pc \in {"returned", "thrown"} THEN {Finished} ELSE {})

\* C15: in a sequence of invocations with the same and with different seeds,
\* two invocations with the same claim end the same way with the same result,
\* two that build the schedule of the same seed up to the same index build
\* the same schedule, and every invocation ends as verifyReplay does on its
\* claim alone, whatever ran before it.
C15_Deterministic ==
  \A x \in Ended :
    /\ x.outcome = verifyReplay(x.arg)
    /\ \A y \in Ended :
         /\ x.arg = y.arg => (x.outcome = y.outcome /\ x.result = y.result)
         /\ (x.built /\ y.built /\ x.arg.seed = y.arg.seed
               /\ x.maxIdx = y.maxIdx) => x.schedule = y.schedule

\* a claim accepted for the second time, after an invocation with the other
\* seed that built a schedule
C15_Witness ==
  /\ pc = "returned"
  /\ result.ok
  /\ Len(log) = 2
  /\ log[1].arg = arg
  /\ log[1].result.ok
  /\ log[2].built
  /\ log[2].arg.seed # arg.seed

\* C16: of two invocations that build the schedule of the same seed, the one
\* with the smaller largest index N builds exactly the first N + 1 entries of
\* the other; the schedule holds one entry per index up to the largest index
\* the claim names in idx or eatenBy.
C16_PrefixStable ==
  \A x \in Ended :
    x.built =>
      /\ Len(x.schedule) = x.maxIdx.n \div Milli + 1
      /\ \A y \in Ended :
           (y.built /\ x.arg.seed = y.arg.seed
              /\ Len(x.schedule) <= Len(y.schedule)) =>
             x.schedule = SubSeq(y.schedule, 1, Len(x.schedule))

\* an invocation that built three entries after one of the same seed that
\* built one entry
C16_Witness ==
  /\ pc = "returned"
  /\ Finished.built
  /\ Len(schedule) = 3
  /\ \E i \in DOMAIN log :
       /\ log[i].built
       /\ log[i].arg.seed = arg.seed
       /\ Len(log[i].schedule) = 1

\* C17: the number of schedule entries an invocation builds stays within a
\* fixed cap, whatever indices the claim names; stated for the largest cap
\* that a claim of the model can exceed, MaxIdx entries.
C17_InputSizeGuard == Len(schedule) <= MaxIdx

\* the checks in the order of the claim, as numbers: shape 1, empty run 2,
\* index bound 3, session window 4, killer plausibility 5, the five checks of
\* the event at position p 10 * p + 1 .. 10 * p + 5, final score last
ScoreStage == 10 * (Len(Items) + 1)

\* the check a return statement belongs to
StageOfExit ==
  CASE exit = "malformed" -> 1
    [] exit \in {"emptyOk", "emptyNonZero"} -> 2
    [] exit \in {"missingIdx", "eatenBy", "killerEntry"} -> 3
    [] exit = "startEnd" -> 4
    [] exit \in {"killerAfter", "killerOld"} -> 5
    [] exit = "noEntry" -> 10 * pos + 1
    [] exit = "window" -> 10 * pos + 2
    [] exit = "type" -> 10 * pos + 3
    [] exit = "size" -> 10 * pos + 4
    [] exit = "ultra" -> 10 * pos + 5
    [] exit = "score" -> ScoreStage
    [] OTHER -> 0

\* the checks the claim fails, each stated on the claim and on the schedule
\* of its seed
FailedStages ==
  IF ~WellShaped THEN {1}
  ELSE IF Len(Items) = 0
       THEN (IF arg.finalScore = Whole(0) THEN {} ELSE {2})
  ELSE
    LET sched == Schedules[arg.seed.s]
        Position(v) == IsInteger(v) /\ v.n >= 0 /\ v.n \div Milli < Len(sched)
        Entry(v) == sched[v.n \div Milli + 1]
        Wire(kind) == IF kind = "electricJelly" THEN "elecJelly" ELSE kind
        timed == IsFinite(arg.startTime) /\ IsFinite(arg.endTime)
        duration == arg.endTime.n - arg.startTime.n
        EventStages(p) ==
          LET ev == Items[p]
          IN  IF ~(ev.obj /\ Position(ev.idx)) THEN {10 * p + 1}
              ELSE
                LET e == Entry(ev.idx)
                    dt == ev.t.n - e.spawnTimeMs * Milli
                    b == TYPE_SIZE_BOUNDS(e.spec.kind, e.spec.fishTypeIndex)
                IN  (IF IsFinite(ev.t) /\ 0 <= dt /\ dt <= 60000 * Milli
                     THEN {} ELSE {10 * p + 2})
                    \cup (IF ev.type = Str(Wire(e.spec.kind))
                          THEN {} ELSE {10 * p + 3})
                    \cup (IF /\ IsFinite(ev.size)
                             /\ b.minSize * Milli - 1 <= ev.size.n
                             /\ ev.size.n <= b.maxSize * Milli + 1
                          THEN {} ELSE {10 * p + 4})
                    \cup (IF e.spec.kind = "fish"
                               /\ (Truthy(ev.ultra) # e.spec.ultra)
                          THEN {10 * p + 5} ELSE {})
    IN  (IF Position(arg.eatenBy) THEN {} ELSE {3})
        \cup (IF /\ timed
                 /\ IsFinite(arg.gameTime)
                 /\ duration > 0
                 /\ duration <= arg.gameTime.n + 3000 * Milli
              THEN {} ELSE {4})
        \cup (IF /\ Position(arg.eatenBy)
                 /\ timed
                 /\ 0 <= duration - Entry(arg.eatenBy).spawnTimeMs * Milli
                 /\ duration - Entry(arg.eatenBy).spawnTimeMs * Milli
                      <= 120000 * Milli
              THEN {} ELSE {5})
        \cup UNION {EventStages(p) : p \in DOMAIN Items}
        \cup (IF IsFinite(arg.finalScore)
                   /\ arg.finalScore = ReportedScore(Items)
              THEN {} ELSE {ScoreStage})

\* C18: the checks are applied in the order shape, empty run, index bound,
\* session window, killer plausibility, per-event checks in submission order
\* (entry, dwell window, type, size, ultra), final score: a returned result is
\* ok when the claim fails none of them, and otherwise carries the reason of
\* the first check in this order that the claim fails.
C18_CheckOrder ==
  pc = "returned" =>
    IF FailedStages = {}
    THEN result.ok
    ELSE /\ ~result.ok
         /\ result.failedDueTo = Reason(exit)
         /\ \A st \in FailedStages : StageOfExit <= st
         /\ StageOfExit \in FailedStages

\* C19: a session that backed a score submission is consumed: every later
\* fetchSession for it returns null, and no session id is recorded on more
\* than one game.
C19_OneTimeConsumption ==
  /\ (fetched.called /\ fetched.usedBefore) => fetched.result = NoSession
  /\ \A id \in SessionIds :
       Cardinality({i \in DOMAIN games : games[i].sessionId = id}) <= 1

C21_SeedBound ==
  \A i, j \in DOMAIN replays :
    (/\ replays[i].payload = replays[j].payload
     /\ replays[i].seed # replays[j].seed
     /\ replays[i].verdict = "true")
      => replays[j].verdict # "true"

\* the spec-stream draws the claim counts for a kind, the kind draw included
KindDraws(kind) ==
  CASE kind = "fish" -> 1 + 5
    [] kind = "puffer" -> 1 + 2
    [] kind \in {"crab", "jelly", "electricJelly", "sushi"} -> 1 + 1
    [] OTHER -> 0

\* the spec-stream draws the claim counts for the first n entries
RECURSIVE DrawsBefore(_, _)
DrawsBefore(sched, n) ==
  IF n = 0 THEN 0
  ELSE DrawsBefore(sched, n - 1) + KindDraws(sched[n].spec.kind)

\* C22: after building the entries of indices 0..N the timing stream has
\* advanced N + 1 times and the spec stream by 6 per fish, 3 per puffer and 2
\* per crab, jelly, electricJelly and sushi; the first draw of an entry picks
\* its kind, the next ones its attributes in the order sub-type, size, side,
\* ultra/fast (fish), side (sushi), base size, side (puffer).
C22_DrawSequence ==
  LET stream == seedrandom(arg.seed.s, "spec")
      draw(i, k) == DrawAt(stream, DrawsBefore(schedule, i - 1) + k)
      InOrder(i) ==
        LET sp == schedule[i].spec
        IN  /\ sp.kind = PickKind(draw(i, 0))
            /\ sp.kind = "fish" =>
                 /\ sp.fishTypeIndex = pickWeightedFishIndex(draw(i, 1))
                 /\ sp.size =
                      getSpecRandom(draw(i, 2),
                        fishTypeDefinitions[sp.fishTypeIndex + 1].minSize * Milli,
                        fishTypeDefinitions[sp.fishTypeIndex + 1].maxSize * Milli)
                 /\ sp.fromLeft = (draw(i, 3) < 500)
                 /\ sp.ultra = (draw(i, 4) < 10)
                 /\ sp.fast = (draw(i, 4) >= 10 /\ draw(i, 4) < 40)
            /\ sp.kind = "sushi" => sp.fromLeft = (draw(i, 1) < 500)
            /\ sp.kind = "puffer" =>
                 /\ sp.baseSize = getSpecRandom(draw(i, 1), 30 * Milli, 60 * Milli)
                 /\ sp.fromLeft = (draw(i, 2) < 500)
  IN  /\ timingCalls = Len(schedule)
      /\ specCalls = DrawsBefore(schedule, Len(schedule))
      /\ \A i \in DOMAIN schedule : InOrder(i)
      /\ (pc \in {"window", "killer", "events"} \/ Finished.built) =>
           Whole(Len(schedule)) = Add(maxIdx, Whole(1))

\* a schedule of a fish, a puffer and a jelly: 11 spec draws, 3 timing draws
C22_Witness ==
  /\ Finished.built
  /\ Len(schedule) = 3
  /\ schedule[1].spec.kind = "fish"
  /\ schedule[2].spec.kind = "puffer"
  /\ schedule[3].spec.kind = "jelly"
  /\ specCalls = 11
  /\ timingCalls = 3

\* the sum of the first i weights of the list, in the unit of r
WeightBelow(i) == SumWeights(SubSeq(SPAWN_SPEC_WEIGHTS, 1, i)) * Milli

\* the kind sampled is that of the first bucket whose weight exceeds what is
\* left of r after the weights before it have been subtracted
FirstBucket ==
  \A i \in DOMAIN SPAWN_SPEC_WEIGHTS :
    (WeightBelow(i - 1) <= picked.r /\ picked.r < WeightBelow(i)) =>
      picked.kind = SPAWN_SPEC_WEIGHTS[i].kind

\* the walk has passed the whole list without a bucket taking the remainder
Overrun == picked.called /\ picked.r >= WeightBelow(Len(SPAWN_SPEC_WEIGHTS))

Orders(n) == {f \in [1..n -> 1..n] : \A i \in 1..n : \E j \in 1..n : f[j] = i}

\* the claim with its events submitted in the order f
Reordered(a, f) == [a EXCEPT !.eaten.items = [p \in DOMAIN f |-> a.eaten.items[f[p]]]]

\* the ok field of an invocation that ended at a return statement, "thrown"
\* for one that ended with an exception
OkOf(outcome) ==
  IF outcome = "thrown" THEN "thrown"
  ELSE IF outcome \in {"emptyOk", "ok"} THEN "true" ELSE "false"

\* C24: the ok field verifyReplay returns for a claim is the one it returns
\* for the same claim with the eaten array in any other order.
C24_OrderIndependent ==
  (pc \in {"returned", "thrown"} /\ arg.defined /\ arg.eaten.isArray) =>
    /\ Outcome = verifyReplay(arg)
    /\ \A f \in Orders(Len(Items)) :
         OkOf(verifyReplay(Reordered(arg, f))) = OkOf(Outcome)

\* an accepted run of two events submitted with the larger idx first
C24_Witness ==
  /\ pc = "returned"
  /\ result.ok
  /\ Len(Items) = 2
  /\ Items[1].idx.n > Items[2].idx.n

\* the largest score among the submissions of a non-empty set
MaxSubmitted(set) ==
  (CHOOSE x \in set : \A y \in set : y.score.n <= x.score.n).score

StepsBefore(at) ==
  CASE at = "game" -> {}
    [] at = "weekly" -> {"game"}
    [] at = "event" -> {"game", "weekly"}
    [] at = "upsert" -> {"game", "weekly", "event"}
    [] OTHER -> {"game", "weekly", "event", "upsert"}

Returned == {inits[i].got : i \in {j \in 1..MaxInits : inits[j].at = "returned"}}

\* C27: over any interleaving of the callers of initDB at most one
\* MongoClient is created and connected, and all callers get the same handle
C27_Singleton ==
  /\ Cardinality(Connected) <= 1
  /\ Cardinality(Returned) <= 1

\* the invocation returned {ok: true} for a claim with events
AcceptedEvents == pc = "returned" /\ result.ok /\ Len(Items) > 0

\* C28: in an accepted replay no two events of the eaten list have the same
\* idx, so no schedule index is counted twice
C28_NoRepeat ==
  AcceptedEvents =>
    \A p, q \in DOMAIN Items : p # q => ~StrictEq(Items[p].idx, Items[q].idx)

\* C29: in an accepted replay the t of every event lies inside the run:
\* 0 <= t <= endTime - startTime
C29_InsideRun ==
  AcceptedEvents =>
    \A p \in DOMAIN Items :
      /\ Le(Whole(0), Items[p].t)
      /\ Le(Items[p].t, Sub(arg.endTime, arg.startTime))

\* a value of type number other than NaN
IsNumber(v) == TypeOf(v) = "number" /\ ~IsNaN(v)

\* C30: no replay with events is accepted whose gameTime, or the t or size of
\* one of its events, is missing or not a number
C30_NumbersRequired ==
  AcceptedEvents =>
    /\ IsNumber(arg.gameTime)
    /\ \A p \in DOMAIN Items : IsNumber(Items[p].t) /\ IsNumber(Items[p].size)

====
